---- MODULE Spec2Model ----
(***************************************************************************)
(* Model of the FEDPOFFA CBT backend's enrollment lifecycle and request    *)
(* gating: SemesterService, ProgramService, CourseService.enroll_in_course *)
(* and rate_limit_dependency.  The database tables are functions from row  *)
(* ids to records; every handler is one action (request handlers run each  *)
(* on their own Session and commit at the end), except in SemTxnSpec, which*)
(* splits update_semester into its SQL statements to interleave requests.  *)
(***************************************************************************)
EXTENDS Integers, Sequences, FiniteSets, TLC

VARIABLES
    semesters,          \* table semesters: id -> [name, is_current, is_active]
    nextSemesterId,     \* the next fresh uuid4() of a Semester row
    assessments,        \* semester ids referenced by a row of table assessments
    courseEnrollments,  \* table course_enrollments: id -> row
    semResponse,        \* outcome of the last SemesterService call
    sessions,           \* SemTxnSpec: the Session of each in-flight request
    rowLocks,           \* SemTxnSpec: semester id -> request holding its row lock (0: none)
    lastCommit,         \* SemTxnSpec: the request that committed last (0: none)
    users,              \* table users: id -> [role]
    programs,           \* table programs: id -> [is_active, is_accepting_enrollments]
    userPrograms,       \* table user_programs: id -> [user_id, program_id, is_active, status]
    nextEnrollmentId,   \* the next fresh uuid4() of a UserProgram row
    progResponse,       \* outcome of the last ProgramService call
    recovery,           \* how far the last calls are into enroll, deactivate, enroll
    courses,            \* table courses: id -> [is_available]
    nextCourseEnrollmentId, \* the next fresh uuid4() of a CourseEnrollment row
    courseResponse,     \* outcome of the last enroll_in_course call
    request_counts,     \* rate_limit_dependency's dict: client ip -> admitted times
    clock,              \* wall-clock seconds
    admissions,         \* the outcomes of the rate limiter's calls, in order
    tokens,             \* the JWTs issued so far, in order, each with how it was issued
    now,                \* datetime.utcnow(), in ticks of 1/TicksPerSecond second
    authResponse,       \* outcome of the last call of the security and auth functions
    inflight            \* requests being served: id -> [op, stage, ...]

semVars == <<semesters, nextSemesterId, assessments, semResponse, sessions,
             rowLocks, lastCommit>>

progVars == <<users, programs, userPrograms, nextEnrollmentId, progResponse, recovery>>

courseVars == <<courses, courseEnrollments, nextCourseEnrollmentId, courseResponse>>

rateVars == <<request_counts, clock, admissions>>

authVars == <<tokens, now, authResponse>>

flightVars == <<inflight>>

nonSemVars == <<progVars, courseVars, rateVars, authVars, flightVars>>

vars == <<semVars, progVars, courseVars, rateVars, authVars, flightVars>>

(***************************************************************************)
(* Bounds of the model.                                                    *)
(***************************************************************************)
MaxSemesters == 3

SemesterNames == {"First", "Second", "Summer"}

\* Optional[bool] of a pydantic update schema: None, True or False.
OptBool == {"None", "True", "False"}

SemesterIds == 1..MaxSemesters

NoResponse == [op |-> "none", result |-> "none", id |-> 0, cleared |-> {}]

(***************************************************************************)
(* Table semesters (models/semester.py) and SemesterService.               *)
(***************************************************************************)
SemesterRow(name, is_current) ==
    [name |-> name, is_current |-> is_current, is_active |-> TRUE]

CurrentSemesters(tbl) == {s \in DOMAIN tbl : tbl[s].is_current}

\* A bug: the bulk UPDATE that clears the flag is forgotten.
ClearCurrentForgotten(tbl) == tbl

\* self.db.query(Semester).update({Semester.is_current: False})
ClearCurrent(tbl) == [s \in DOMAIN tbl |-> [tbl[s] EXCEPT !.is_current = FALSE]]

\* The rows written by scripts/seed_database.py: the first semester is current.
SeededSemesters ==
    (1 :> SemesterRow("First", TRUE)) @@ (2 :> SemesterRow("Second", FALSE))

\* What create_semester may be handed.  The request schema SemesterCreate
\* declares no is_current, so reading it raises AttributeError; an object that
\* carries the attribute (has_is_current) takes the rest of the method.
SemesterCreateInputs ==
    [name : SemesterNames, has_is_current : BOOLEAN, is_current : BOOLEAN]

SemesterUpdateInputs ==
    [name : SemesterNames \cup {"None"}, is_current : OptBool, is_active : OptBool]

HasEnrollments(sid) ==
    \E e \in DOMAIN courseEnrollments : courseEnrollments[e].semester_id = sid

create_semester(data) ==
    /\ IF \E s \in DOMAIN semesters : semesters[s].name = data.name
       THEN /\ semResponse' = [op |-> "create_semester", result |-> "bad_request",
                               id |-> 0, cleared |-> {}]
            /\ UNCHANGED <<semesters, nextSemesterId>>
       ELSE IF ~data.has_is_current
       THEN /\ semResponse' = [op |-> "create_semester", result |-> "attribute_error",
                               id |-> 0, cleared |-> {}]
            /\ UNCHANGED <<semesters, nextSemesterId>>
       ELSE LET base == IF data.is_current THEN ClearCurrent(semesters) ELSE semesters
            IN  /\ nextSemesterId <= MaxSemesters
                /\ semesters' = base @@ (nextSemesterId :> SemesterRow(data.name, data.is_current))
                /\ nextSemesterId' = nextSemesterId + 1
                /\ semResponse' = [op |-> "create_semester", result |-> "ok",
                                   id |-> nextSemesterId,
                                   cleared |-> IF data.is_current
                                               THEN CurrentSemesters(semesters) ELSE {}]
    /\ UNCHANGED <<assessments, nonSemVars, sessions, rowLocks, lastCommit>>

\* A bug: the assignment semester.is_current = ... is forgotten.
UpdatedRowFlagKept(row, data) ==
    [name |-> IF data.name # "None" THEN data.name ELSE row.name,
     is_current |-> row.is_current,
     is_active |-> IF data.is_active # "None" THEN data.is_active = "True"
                   ELSE row.is_active]

\* The row after update_semester's assignments (lines 350-376), row being the
\* loaded row after the optional clear.
UpdatedRow(row, data) ==
    [name |-> IF data.name # "None" THEN data.name ELSE row.name,
     is_current |-> IF data.is_current # "None" THEN data.is_current = "True"
                    ELSE row.is_current,
     is_active |-> IF data.is_active # "None" THEN data.is_active = "True"
                   ELSE row.is_active]

update_semester(sid, data) ==
    /\ IF sid \notin DOMAIN semesters
       THEN /\ semResponse' = [op |-> "update_semester", result |-> "not_found",
                               id |-> sid, cleared |-> {}]
            /\ UNCHANGED semesters
       ELSE LET base == IF data.is_current = "True"
                        THEN ClearCurrent(semesters) ELSE semesters
            IN  /\ semesters' = [base EXCEPT ![sid] = UpdatedRow(base[sid], data)]
                /\ semResponse' = [op |-> "update_semester",
                                   result |-> IF data.is_current = "True"
                                              THEN "ok_set_current" ELSE "ok",
                                   id |-> sid,
                                   cleared |-> IF data.is_current = "True"
                                               THEN CurrentSemesters(semesters) \ {sid}
                                               ELSE {}]
    /\ UNCHANGED <<nextSemesterId, assessments, nonSemVars, sessions,
                   rowLocks, lastCommit>>

delete_semester(sid) ==
    /\ IF sid \notin DOMAIN semesters
       THEN /\ semResponse' = [op |-> "delete_semester", result |-> "not_found",
                               id |-> sid, cleared |-> {}]
            /\ UNCHANGED semesters
       ELSE IF sid \in assessments \/ HasEnrollments(sid)
       THEN /\ semResponse' = [op |-> "delete_semester", result |-> "bad_request",
                               id |-> sid, cleared |-> {}]
            /\ UNCHANGED semesters
       ELSE /\ semesters' = [s \in DOMAIN semesters \ {sid} |-> semesters[s]]
            /\ semResponse' = [op |-> "delete_semester", result |-> "ok",
                               id |-> sid, cleared |-> {}]
    /\ UNCHANGED <<nextSemesterId, assessments, nonSemVars, sessions,
                   rowLocks, lastCommit>>

\* The tables of the other services, left alone by this specification.
ProgQuiet ==
    /\ users = <<>>
    /\ programs = <<>>
    /\ userPrograms = <<>>
    /\ nextEnrollmentId = 1
    /\ progResponse = NoResponse
    /\ recovery = [stage |-> 0, id |-> 0]

CourseQuiet ==
    /\ courses = <<>>
    /\ courseEnrollments = <<>>
    /\ nextCourseEnrollmentId = 1
    /\ courseResponse = NoResponse

RateQuiet ==
    /\ request_counts = <<>>
    /\ clock = 0
    /\ admissions = <<>>

AuthQuiet ==
    /\ tokens = <<>>
    /\ now = 0
    /\ authResponse = NoResponse
    /\ inflight = <<>>

SemInit ==
    /\ semesters = SeededSemesters
    /\ nextSemesterId = 3
    /\ assessments \in {{}, {2}}
    /\ semResponse = NoResponse
    /\ sessions = <<>>
    /\ rowLocks = <<>>
    /\ lastCommit = 0
    /\ ProgQuiet /\ CourseQuiet /\ RateQuiet /\ AuthQuiet

SemNext ==
    \/ \E data \in SemesterCreateInputs : create_semester(data)
    \/ \E sid \in SemesterIds, data \in SemesterUpdateInputs : update_semester(sid, data)
    \/ \E sid \in SemesterIds : delete_semester(sid)

SemSpec == SemInit /\ [][SemNext]_vars

\* C1: after any sequence of create_semester, update_semester and
\* delete_semester calls, at most one semester has is_current = true.
C1_AtMostOneCurrent == Cardinality(CurrentSemesters(semesters)) <= 1

\* A third semester was created as current and took the flag from another.
C1_Witness ==
    /\ semResponse.op = "create_semester"
    /\ semResponse.result = "ok"
    /\ semResponse.cleared # {}
    /\ CurrentSemesters(semesters) = {semResponse.id}

\* C2: when update_semester(B, is_current = true) has completed, B is the one
\* and only current semester, whatever calls came before it.
C2_SetCurrentMovesFlag ==
    semResponse.result = "ok_set_current" =>
        CurrentSemesters(semesters) = {semResponse.id}

\* B was made current while another semester A held the flag.
C2_Witness ==
    /\ semResponse.result = "ok_set_current"
    /\ semResponse.cleared # {}
    /\ semResponse.id \notin semResponse.cleared
    /\ Cardinality(DOMAIN semesters) >= 2

(***************************************************************************)
(* update_semester statement by statement, for requests that overlap.      *)
(* Each request has its own Session (db/base.py get_db) on PostgreSQL      *)
(* (core/config.py DATABASE_URL) at its default READ COMMITTED level: a    *)
(* statement reads the committed rows, an UPDATE takes the row locks of    *)
(* the rows it writes and waits while another transaction holds one, and   *)
(* the transaction's writes reach the committed table at COMMIT.           *)
(***************************************************************************)
MaxRequests == 2

Requests == 1..MaxRequests

\* A column write of a transaction, in the shape of SemesterUpdateInputs.
NoWrite == [name |-> "None", is_current |-> "None", is_active |-> "None"]

IdleSession == [pc |-> "idle", target |-> 0, data |-> NoWrite,
                obj |-> SemesterRow("None", FALSE), loaded |-> SemesterRow("None", FALSE),
                writes |-> <<>>, overlapped |-> FALSE]

\* A bug: the session commits every statement on its own.
AutocommitOn == TRUE

\* sessionmaker(autocommit=False, ...)
Autocommit == FALSE

\* The committed table with the pending writes of one transaction applied.
ApplyWrites(tbl, writes) ==
    [s \in DOMAIN tbl |-> IF s \in DOMAIN writes THEN UpdatedRow(tbl[s], writes[s])
                          ELSE tbl[s]]

\* Adds the column writes wr to those the transaction already holds for row s.
MergeWrite(writes, s, wr) ==
    LET old == IF s \in DOMAIN writes THEN writes[s] ELSE NoWrite
        new == [name |-> IF wr.name # "None" THEN wr.name ELSE old.name,
                is_current |-> IF wr.is_current # "None" THEN wr.is_current
                               ELSE old.is_current,
                is_active |-> IF wr.is_active # "None" THEN wr.is_active
                              ELSE old.is_active]
    IN  [t \in (DOMAIN writes) \cup {s} |-> IF t = s THEN new ELSE writes[t]]

\* The unit of work's UPDATE for one object: only the attributes that differ
\* from their loaded values are written.
FlushWrite(loaded, obj) ==
    [name |-> IF obj.name # loaded.name THEN obj.name ELSE "None",
     is_current |-> IF obj.is_current # loaded.is_current
                    THEN (IF obj.is_current THEN "True" ELSE "False") ELSE "None",
     is_active |-> IF obj.is_active # loaded.is_active
                   THEN (IF obj.is_active THEN "True" ELSE "False") ELSE "None"]

LocksFree(w, rows) == \A s \in rows : rowLocks[s] \in {0, w}

\* A statement's writes: kept in the transaction, or committed at once under
\* autocommit.
Statement(w, writes, rows) ==
    IF Autocommit
    THEN /\ semesters' = ApplyWrites(semesters, writes)
         /\ rowLocks' = rowLocks
    ELSE /\ semesters' = semesters
         /\ rowLocks' = [s \in DOMAIN rowLocks |-> IF s \in rows THEN w ELSE rowLocks[s]]

\* The positions of a request between its SELECT and its COMMIT.  A session's
\* overlapped records that another request committed while it was there.
InFlight == {"selected", "cleared", "assigned", "flushed"}

\* line 342: SELECT the semester; 404 when there is none.
txn_select(w, sid, data) ==
    /\ sessions[w].pc = "idle"
    /\ IF sid \notin DOMAIN semesters
       THEN sessions' = [sessions EXCEPT ![w] = [IdleSession EXCEPT !.pc = "done",
                                                 !.target = sid, !.data = data]]
       ELSE sessions' = [sessions EXCEPT ![w] =
                [pc |-> "selected", target |-> sid, data |-> data,
                 obj |-> semesters[sid], loaded |-> semesters[sid], writes |-> <<>>,
                 overlapped |-> FALSE]]
    /\ UNCHANGED <<semesters, nextSemesterId, assessments, nonSemVars,
                   semResponse, rowLocks, lastCommit>>

\* line 373: the bulk UPDATE of every row; synchronize_session sets the flag
\* of the loaded object to False as its loaded value.
txn_clear(w) ==
    LET ss == sessions[w]
        wr == [s \in DOMAIN semesters |-> [NoWrite EXCEPT !.is_current = "False"]]
    IN  /\ ss.pc = "selected"
        /\ ss.data.is_current = "True"
        /\ LocksFree(w, DOMAIN semesters)
        /\ Statement(w, wr, DOMAIN semesters)
        /\ sessions' = [sessions EXCEPT ![w] =
                [ss EXCEPT !.pc = "cleared",
                           !.obj = [ss.obj EXCEPT !.is_current = FALSE],
                           !.loaded = [ss.loaded EXCEPT !.is_current = FALSE],
                           !.writes = IF Autocommit THEN <<>> ELSE wr]]
        /\ UNCHANGED <<nextSemesterId, assessments, nonSemVars, semResponse,
                       lastCommit>>

\* lines 350-378: the assignments to the loaded object, in memory.
txn_assign(w) ==
    LET ss == sessions[w]
    IN  /\ \/ ss.pc = "cleared"
           \/ ss.pc = "selected" /\ ss.data.is_current # "True"
        /\ sessions' = [sessions EXCEPT ![w] =
                [ss EXCEPT !.pc = "assigned", !.obj = UpdatedRow(ss.obj, ss.data)]]
        /\ UNCHANGED <<semesters, nextSemesterId, assessments, nonSemVars,
                       semResponse, rowLocks, lastCommit>>

\* line 380, first half: commit() flushes the object (updated_at always
\* changed, so the row is always written and locked).
txn_flush(w) ==
    LET ss == sessions[w]
        wr == FlushWrite(ss.loaded, ss.obj)
    IN  /\ ss.pc = "assigned"
        /\ LocksFree(w, {ss.target})
        /\ Statement(w, (ss.target :> wr), {ss.target})
        /\ sessions' = [sessions EXCEPT ![w] =
                [ss EXCEPT !.pc = "flushed",
                           !.writes = IF Autocommit THEN <<>>
                                      ELSE MergeWrite(ss.writes, ss.target, wr)]]
        /\ UNCHANGED <<nextSemesterId, assessments, nonSemVars, semResponse,
                       lastCommit>>

\* line 380, second half: COMMIT publishes the writes and releases the locks.
txn_commit(w) ==
    LET ss == sessions[w]
    IN  /\ ss.pc = "flushed"
        /\ semesters' = ApplyWrites(semesters, ss.writes)
        /\ rowLocks' = [s \in DOMAIN rowLocks |-> IF rowLocks[s] = w THEN 0 ELSE rowLocks[s]]
        /\ lastCommit' = w
        /\ sessions' = [v \in Requests |->
                IF v = w THEN [ss EXCEPT !.pc = "done", !.writes = <<>>]
                ELSE IF sessions[v].pc \in InFlight
                THEN [sessions[v] EXCEPT !.overlapped = TRUE]
                ELSE sessions[v]]
        /\ UNCHANGED <<nextSemesterId, assessments, nonSemVars, semResponse>>

\* get_db closes the session; the worker takes the next request.
txn_close(w) ==
    /\ sessions[w].pc = "done"
    /\ sessions' = [sessions EXCEPT ![w] = IdleSession]
    /\ lastCommit' = IF lastCommit = w THEN 0 ELSE lastCommit
    /\ UNCHANGED <<semesters, nextSemesterId, assessments, nonSemVars,
                   semResponse, rowLocks>>

SemTxnInit ==
    /\ semesters = SeededSemesters @@ (3 :> SemesterRow("Summer", FALSE))
    /\ nextSemesterId = 4
    /\ assessments = {}
    /\ semResponse = NoResponse
    /\ sessions = [w \in Requests |-> IdleSession]
    /\ rowLocks = [s \in 1..3 |-> 0]
    /\ lastCommit = 0
    /\ ProgQuiet /\ CourseQuiet /\ RateQuiet /\ AuthQuiet

\* The requests that overlap: those that send is_current alone.
SemTxnInputs == {d \in SemesterUpdateInputs : d.name = "None" /\ d.is_active = "None"}

SemTxnNext ==
    \/ \E w \in Requests, sid \in 1..4, data \in SemTxnInputs : txn_select(w, sid, data)
    \/ \E w \in Requests : txn_clear(w)
    \/ \E w \in Requests : txn_assign(w)
    \/ \E w \in Requests : txn_flush(w)
    \/ \E w \in Requests : txn_commit(w)
    \/ \E w \in Requests : txn_close(w)

SemTxnSpec == SemTxnInit /\ [][SemTxnNext]_vars

\* C3: with overlapping update_semester requests, the committed table never
\* holds two current semesters, and right after the commit of a request that
\* set is_current = true its semester is the current one (its clear and its
\* set are committed together).
C3_SetCurrentAtomic ==
    /\ Cardinality(CurrentSemesters(semesters)) <= 1
    /\ \A w \in Requests :
          (lastCommit = w /\ sessions[w].pc = "done"
                /\ sessions[w].data.is_current = "True")
            => CurrentSemesters(semesters) = {sessions[w].target}

\* Two set-current requests on different semesters overlapped: one committed
\* while the other was between its SELECT and its COMMIT, and then the other
\* committed too.
C3_Witness ==
    \E w \in Requests, v \in Requests :
        /\ w # v
        /\ lastCommit = w
        /\ sessions[w].pc = "done" /\ sessions[w].overlapped
        /\ sessions[w].data.is_current = "True"
        /\ sessions[v].pc = "done"
        /\ sessions[v].data.is_current = "True"
        /\ sessions[v].target # sessions[w].target
        /\ sessions[v].target \in DOMAIN semesters

(***************************************************************************)
(* Tables users, programs, user_programs and ProgramService.               *)
(***************************************************************************)
MaxEnrollments == 2

\* Users 1 and 2 are students, 3 is a lecturer; no user has id 4.
SeededUsers ==
    (1 :> [role |-> "student"]) @@ (2 :> [role |-> "student"])
        @@ (3 :> [role |-> "lecturer"])

UserIds == 1..4

\* Program 1 exists; no program has id 2.
ProgramIds == 1..2

SeededPrograms == (1 :> [is_active |-> TRUE, is_accepting_enrollments |-> TRUE])

valid_statuses == {"enrolled", "graduated", "dropped", "suspended"}

\* The status strings a caller may pass: the valid ones and one that is not.
StatusInputs == valid_statuses \cup {"expelled"}

\* User.is_student
is_student(u) == users[u].role = "student"

\* The rows of user_programs for a (user, program) pair.
PairRows(tbl, u, p) ==
    {e \in DOMAIN tbl : tbl[e].user_id = u /\ tbl[e].program_id = p}

ActivePairRows(tbl, u, p) == {e \in PairRows(tbl, u, p) : tbl[e].is_active}

\* A bug: the check of is_accepting_enrollments is left out.
EnrollCheckAcceptingSkipped(u, p) ==
    IF u \notin DOMAIN users THEN "not_found"
    ELSE IF ~is_student(u) THEN "validation"
    ELSE IF p \notin DOMAIN programs THEN "not_found"
    ELSE IF ~programs[p].is_active THEN "validation"
    ELSE "pass"

\* enroll_student_in_program lines 146-160 and get_program: the exception the
\* checks raise, in their order, or "pass".
EnrollCheck(u, p) ==
    IF u \notin DOMAIN users THEN "not_found"
    ELSE IF ~is_student(u) THEN "validation"
    ELSE IF p \notin DOMAIN programs THEN "not_found"
    ELSE IF ~programs[p].is_active THEN "validation"
    ELSE IF ~programs[p].is_accepting_enrollments THEN "validation"
    ELSE "pass"

\* A bug: reactivation forgets to reset the status.
ReactivatedStatusKept(row) == [row EXCEPT !.is_active = TRUE]

\* lines 177-178: the reactivated row.
Reactivated(row) == [row EXCEPT !.is_active = TRUE, !.status = "enrolled"]

\* lines 184-190 with the column defaults of models/user_program.py.
NewEnrollment(u, p) ==
    [user_id |-> u, program_id |-> p, is_active |-> TRUE, status |-> "enrolled"]

ProgResponse(op, result, id, u, p, had_active) ==
    [op |-> op, result |-> result, id |-> id, user |-> u, program |-> p,
     had_active |-> had_active, changed |-> userPrograms' # userPrograms]

\* The position in the sequence enroll(S, P), deactivate that enrollment,
\* enroll(S, P): stage 1 after an enroll that returned row id and left the pair
\* with that one row, stage 2 after the deactivation of row id that follows it,
\* stage 3 after the enroll of the same pair that follows that.
RecoveryAfterEnroll(u, p, result, id) ==
    IF /\ recovery.stage = 2
       /\ userPrograms[recovery.id].user_id = u
       /\ userPrograms[recovery.id].program_id = p
    THEN [stage |-> 3, id |-> recovery.id]
    ELSE IF result \in {"created", "reactivated"} /\ PairRows(userPrograms', u, p) = {id}
    THEN [stage |-> 1, id |-> id]
    ELSE [stage |-> 0, id |-> 0]

enroll_student_in_program(u, p) ==
    LET check == EnrollCheck(u, p)
        had == ActivePairRows(userPrograms, u, p) # {}
    IN  /\ IF check # "pass"
           THEN /\ UNCHANGED <<userPrograms, nextEnrollmentId>>
                /\ progResponse' = ProgResponse("enroll", check, 0, u, p, had)
                /\ recovery' = RecoveryAfterEnroll(u, p, check, 0)
           ELSE IF PairRows(userPrograms, u, p) # {}
           THEN \* .first() of a query without ORDER BY: any row of the pair
                \E e \in PairRows(userPrograms, u, p) :
                    IF userPrograms[e].is_active
                    THEN /\ UNCHANGED <<userPrograms, nextEnrollmentId>>
                         /\ progResponse' = ProgResponse("enroll", "conflict", 0, u, p, had)
                         /\ recovery' = RecoveryAfterEnroll(u, p, "conflict", 0)
                    ELSE /\ userPrograms' =
                                [userPrograms EXCEPT ![e] = Reactivated(userPrograms[e])]
                         /\ UNCHANGED nextEnrollmentId
                         /\ progResponse' = ProgResponse("enroll", "reactivated", e, u, p, had)
                         /\ recovery' = RecoveryAfterEnroll(u, p, "reactivated", e)
           ELSE /\ nextEnrollmentId <= MaxEnrollments
                /\ userPrograms' = userPrograms @@ (nextEnrollmentId :> NewEnrollment(u, p))
                /\ nextEnrollmentId' = nextEnrollmentId + 1
                /\ progResponse' = ProgResponse("enroll", "created", nextEnrollmentId,
                                                u, p, had)
                /\ recovery' = RecoveryAfterEnroll(u, p, "created", nextEnrollmentId)
        /\ UNCHANGED <<users, programs, semVars, courseVars, rateVars, authVars, flightVars>>

\* The **kwargs of update_enrollment_status: is_active ("None": not passed),
\* user_id and program_id (0: not passed), and whether a key names a read-only
\* property of UserProgram (student_name), whose setattr raises.  A key that
\* is no attribute of the row is skipped by hasattr and is as if not passed.
\* user_id is rewritten to a student or to the missing user.
AllEnrollmentKwargs ==
    [is_active : OptBool, user_id : {0, 1, 2, 4}, program_id : {0} \cup ProgramIds,
     read_only : BOOLEAN]

NoKwargs == [is_active |-> "None", user_id |-> 0, program_id |-> 0, read_only |-> FALSE]

\* The calls of the model pass at most one keyword.
EnrollmentKwargs ==
    {kw \in AllEnrollmentKwargs :
        \/ kw = [NoKwargs EXCEPT !.is_active = kw.is_active]
        \/ kw = [NoKwargs EXCEPT !.user_id = kw.user_id]
        \/ kw = [NoKwargs EXCEPT !.program_id = kw.program_id]
        \/ kw = [NoKwargs EXCEPT !.read_only = kw.read_only]}

\* lines 235-238: the row after the assignments.
StatusUpdated(row, status, kw) ==
    [user_id |-> IF kw.user_id # 0 THEN kw.user_id ELSE row.user_id,
     program_id |-> IF kw.program_id # 0 THEN kw.program_id ELSE row.program_id,
     is_active |-> IF kw.is_active # "None" THEN kw.is_active = "True" ELSE row.is_active,
     status |-> status]

\* The foreign keys of user_programs, checked by the database at commit.
ForeignKeysHold(row) == row.user_id \in DOMAIN users /\ row.program_id \in DOMAIN programs

\* A deactivation and nothing else: only is_active = False is passed.
Deactivation(kw) ==
    kw.is_active = "False" /\ kw.user_id = 0 /\ kw.program_id = 0 /\ ~kw.read_only

update_enrollment_status(e, status, kw) ==
    LET result ==
            IF e \notin DOMAIN userPrograms THEN "not_found"
            ELSE IF status \notin valid_statuses THEN "validation"
            ELSE IF kw.read_only THEN "attribute_error"
            ELSE IF ~ForeignKeysHold(StatusUpdated(userPrograms[e], status, kw))
            THEN "integrity_error"
            ELSE "ok"
    IN  /\ userPrograms' = IF result = "ok"
                           THEN [userPrograms EXCEPT
                                    ![e] = StatusUpdated(userPrograms[e], status, kw)]
                           ELSE userPrograms
        /\ progResponse' = ProgResponse("update_enrollment_status", result, 0, 0, 0, FALSE)
        /\ recovery' = IF result = "ok" /\ recovery.stage = 1 /\ recovery.id = e
                          /\ Deactivation(kw)
                       THEN [stage |-> 2, id |-> e]
                       ELSE [stage |-> 0, id |-> 0]
        /\ UNCHANGED <<users, programs, nextEnrollmentId, semVars, courseVars, rateVars, authVars, flightVars>>

\* update_program with is_active and is_accepting_enrollments set in the request.
update_program(p, is_active, is_accepting) ==
    /\ p \in DOMAIN programs
    /\ programs' = [programs EXCEPT ![p] =
            [is_active |-> is_active, is_accepting_enrollments |-> is_accepting]]
    /\ progResponse' = [op |-> "update_program", result |-> "ok", id |-> 0, user |-> 0,
                        program |-> p, had_active |-> FALSE, changed |-> FALSE]
    /\ recovery' = [stage |-> 0, id |-> 0]
    /\ UNCHANGED <<users, userPrograms, nextEnrollmentId, semVars, courseVars, rateVars, authVars, flightVars>>

\* The (status, kwargs) of the calls: every status without keywords, and
\* two of the statuses with each keyword.
StatusCalls ==
    {<<st, NoKwargs>> : st \in StatusInputs}
        \cup {<<st, kw>> : st \in {"enrolled", "dropped"}, kw \in EnrollmentKwargs}

SemQuiet ==
    /\ semesters = SeededSemesters
    /\ nextSemesterId = 3
    /\ assessments = {}
    /\ semResponse = NoResponse
    /\ sessions = <<>>
    /\ rowLocks = <<>>
    /\ lastCommit = 0

ProgInit ==
    /\ users = SeededUsers
    /\ programs = SeededPrograms
    /\ userPrograms = <<>>
    /\ nextEnrollmentId = 1
    /\ progResponse = [op |-> "none", result |-> "none", id |-> 0, user |-> 0,
                       program |-> 0, had_active |-> FALSE, changed |-> FALSE]
    /\ recovery = [stage |-> 0, id |-> 0]
    /\ SemQuiet /\ CourseQuiet /\ RateQuiet /\ AuthQuiet

ProgNext ==
    \/ \E u \in UserIds, p \in ProgramIds : enroll_student_in_program(u, p)
    \/ \E e \in 1..MaxEnrollments, call \in StatusCalls :
            update_enrollment_status(e, call[1], call[2])
    \/ \E p \in ProgramIds, a \in BOOLEAN, b \in BOOLEAN : update_program(p, a, b)

ProgSpec == ProgInit /\ [][ProgNext]_vars

\* C4: after any sequence of enroll_student_in_program and
\* update_enrollment_status calls every (user, program) pair has at most one
\* row with is_active = true, and an enroll that inserts a row leaves the pair
\* with that row alone.
C4_OneActiveRowPerPair ==
    /\ \A u \in UserIds, p \in ProgramIds :
            Cardinality(ActivePairRows(userPrograms, u, p)) <= 1
    /\ (progResponse.op = "enroll" /\ progResponse.result = "created")
            => PairRows(userPrograms, progResponse.user, progResponse.program)
                    = {progResponse.id}

\* C5: enroll(S, P), then the deactivation of the returned enrollment, then
\* enroll(S, P) again returns the same enrollment id, active and with status
\* enrolled, and (S, P) still has that one row.
C5_ReactivationReusesRow ==
    recovery.stage = 3 =>
        /\ progResponse.result = "reactivated"
        /\ progResponse.id = recovery.id
        /\ userPrograms[recovery.id].is_active
        /\ userPrograms[recovery.id].status = "enrolled"
        /\ PairRows(userPrograms, progResponse.user, progResponse.program)
                = {recovery.id}

\* The three calls were made, in a table that holds another student's row too.
C5_Witness ==
    /\ recovery.stage = 3
    /\ progResponse.op = "enroll"
    /\ progResponse.id = recovery.id
    /\ Cardinality(DOMAIN userPrograms) = 2

\* C6: enroll_student_in_program for a student and an active, accepting
\* program whose pair already has a row with is_active = true fails with
\* ConflictException, whatever the status of that row, and changes no row.
C6_ActiveRowConflicts ==
    (/\ progResponse.op = "enroll"
     /\ progResponse.had_active
     /\ progResponse.user \in DOMAIN users
     /\ progResponse.program \in DOMAIN programs
     /\ is_student(progResponse.user)
     /\ programs[progResponse.program].is_active
     /\ programs[progResponse.program].is_accepting_enrollments)
        => (progResponse.result = "conflict" /\ ~progResponse.changed)

\* C7: enroll_student_in_program fails with not-found for a missing user or
\* (for a student) a missing program, with a validation error for a user who
\* is no student or (for a student) a program that is inactive or not
\* accepting enrollments, and in each case leaves user_programs as it was.
C7_FailedChecksWriteNothing ==
    progResponse.op = "enroll" =>
        LET u == progResponse.user
            p == progResponse.program
            student == u \in DOMAIN users /\ users[u].role = "student"
        IN  /\ u \notin DOMAIN users
                => (progResponse.result = "not_found" /\ ~progResponse.changed)
            /\ (u \in DOMAIN users /\ ~student)
                => (progResponse.result = "validation" /\ ~progResponse.changed)
            /\ (student /\ p \notin DOMAIN programs)
                => (progResponse.result = "not_found" /\ ~progResponse.changed)
            /\ (student /\ p \in DOMAIN programs
                    /\ (~programs[p].is_active \/ ~programs[p].is_accepting_enrollments))
                => (progResponse.result = "validation" /\ ~progResponse.changed)

\* A student's enroll was refused because the program takes no enrollments,
\* while the pair held an inactive row that was not reactivated.
C7_Witness ==
    /\ progResponse.op = "enroll"
    /\ progResponse.result = "validation"
    /\ progResponse.user \in DOMAIN users
    /\ users[progResponse.user].role = "student"
    /\ programs[progResponse.program].is_active
    /\ ~programs[progResponse.program].is_accepting_enrollments
    /\ PairRows(userPrograms, progResponse.user, progResponse.program) # {}
    /\ ActivePairRows(userPrograms, progResponse.user, progResponse.program) = {}

-----------------------------------------------------------------------------
\* CourseService.enroll_in_course, update_course and delete_course over the
\* tables courses and course_enrollments.

MaxCourseEnrollments == 3

CourseIds == 1..3

\* current_user of the enroll route: any authenticated user.
EnrollingUsers == 1..2

\* course 1 is open for enrollment, course 2 is not; no course has id 3.
SeededCourses ==
    (1 :> [is_available |-> TRUE]) @@ (2 :> [is_available |-> FALSE])

CourseEnrollmentRow(u, c, s, is_active) ==
    [student_id |-> u, course_id |-> c, semester_id |-> s,
     status |-> "enrolled", is_active |-> is_active]

\* No operation of the services clears CourseEnrollment.is_active; a row with
\* is_active = false is one that was written to the table directly.  The
\* table starts empty or with one such row.
InitialCourseEnrollments ==
    {<<>>} \cup
    {<<CourseEnrollmentRow(u, c, s, FALSE)>> :
        u \in EnrollingUsers, c \in DOMAIN SeededCourses, s \in DOMAIN SeededSemesters}

TripleRows(tbl, u, c, s) ==
    {e \in DOMAIN tbl : /\ tbl[e].course_id = c
                        /\ tbl[e].student_id = u
                        /\ tbl[e].semester_id = s}

\* The existing_enrollment query without its is_active filter.
ExistingEnrollmentsAnyActivity(tbl, u, c, s) == TripleRows(tbl, u, c, s)

\* The rows the existing_enrollment query of enroll_in_course matches.
ExistingEnrollments(tbl, u, c, s) ==
    {e \in TripleRows(tbl, u, c, s) : tbl[e].is_active}

CourseState(c) ==
    IF c \notin DOMAIN courses THEN "missing"
    ELSE IF courses[c].is_available THEN "available" ELSE "unavailable"

\* The checks of enroll_in_course without the is_available check.
EnrollInCourseCheckAvailableSkipped(c, s) ==
    IF c \notin DOMAIN courses THEN "not_found"
    ELSE IF s \notin DOMAIN semesters THEN "semester_not_found"
    ELSE "ok"

\* The checks of enroll_in_course before the existing_enrollment query, in
\* source order: 404 course not found, 400 not available, 400 semester not
\* found.
EnrollInCourseCheck(c, s) ==
    IF c \notin DOMAIN courses THEN "not_found"
    ELSE IF ~courses[c].is_available THEN "unavailable"
    ELSE IF s \notin DOMAIN semesters THEN "semester_not_found"
    ELSE "ok"

\* What a call of enroll_in_course did: its outcome, the state of its course
\* and semester and of the rows of its triple when it was made, and the
\* difference between the table before and after it.
CourseResponse(result, id, u, c, s) ==
    [op |-> "enroll", result |-> result, id |-> id,
     student |-> u, course |-> c, semester |-> s,
     course_state |-> CourseState(c),
     semester_exists |-> s \in DOMAIN semesters,
     had_active |-> \E e \in TripleRows(courseEnrollments, u, c, s) :
                            courseEnrollments[e].is_active,
     had_inactive |-> \E e \in TripleRows(courseEnrollments, u, c, s) :
                            ~courseEnrollments[e].is_active,
     changed |-> courseEnrollments' # courseEnrollments,
     inserted |-> /\ id \notin DOMAIN courseEnrollments
                  /\ DOMAIN courseEnrollments' = DOMAIN courseEnrollments \cup {id}
                  /\ \A e \in DOMAIN courseEnrollments :
                        courseEnrollments'[e] = courseEnrollments[e]]

CourseOpResponse(op, result, c) ==
    [op |-> op, result |-> result, id |-> 0, student |-> 0, course |-> c,
     semester |-> 0, course_state |-> "none", semester_exists |-> FALSE,
     had_active |-> FALSE, had_inactive |-> FALSE, changed |-> FALSE,
     inserted |-> FALSE]

enroll_in_course(u, c, s) ==
    LET check == EnrollInCourseCheck(c, s)
    IN  /\ IF check # "ok"
           THEN /\ courseEnrollments' = courseEnrollments
                /\ nextCourseEnrollmentId' = nextCourseEnrollmentId
                /\ courseResponse' = CourseResponse(check, 0, u, c, s)
           ELSE IF ExistingEnrollments(courseEnrollments, u, c, s) # {}
           THEN /\ courseEnrollments' = courseEnrollments
                /\ nextCourseEnrollmentId' = nextCourseEnrollmentId
                /\ courseResponse' = CourseResponse("already_enrolled", 0, u, c, s)
           ELSE /\ nextCourseEnrollmentId <= MaxCourseEnrollments
                /\ courseEnrollments' =
                        Append(courseEnrollments, CourseEnrollmentRow(u, c, s, TRUE))
                /\ nextCourseEnrollmentId' = nextCourseEnrollmentId + 1
                /\ courseResponse' =
                        CourseResponse("created", nextCourseEnrollmentId, u, c, s)
        /\ UNCHANGED <<courses, semVars, progVars, rateVars, authVars, flightVars>>

\* update_course with is_available set in the request.
update_course(c, is_available) ==
    /\ IF c \notin DOMAIN courses
       THEN /\ courses' = courses
            /\ courseResponse' = CourseOpResponse("update_course", "not_found", c)
       ELSE /\ courses' = [courses EXCEPT ![c].is_available = is_available]
            /\ courseResponse' = CourseOpResponse("update_course", "ok", c)
    /\ UNCHANGED <<courseEnrollments, nextCourseEnrollmentId, semVars, progVars, rateVars, authVars, flightVars>>

delete_course(c) ==
    /\ IF c \notin DOMAIN courses
       THEN /\ courses' = courses
            /\ courseResponse' = CourseOpResponse("delete_course", "not_found", c)
       ELSE IF \E e \in DOMAIN courseEnrollments : courseEnrollments[e].course_id = c
       THEN /\ courses' = courses
            /\ courseResponse' = CourseOpResponse("delete_course", "bad_request", c)
       ELSE /\ courses' = [x \in DOMAIN courses \ {c} |-> courses[x]]
            /\ courseResponse' = CourseOpResponse("delete_course", "ok", c)
    /\ UNCHANGED <<courseEnrollments, nextCourseEnrollmentId, semVars, progVars, rateVars, authVars, flightVars>>

CourseInit ==
    /\ courses = SeededCourses
    /\ courseEnrollments \in InitialCourseEnrollments
    /\ nextCourseEnrollmentId = Len(courseEnrollments) + 1
    /\ courseResponse = NoResponse
    /\ SemQuiet /\ ProgQuiet /\ RateQuiet /\ AuthQuiet

CourseNext ==
    \/ \E u \in EnrollingUsers, c \in CourseIds, s \in SemesterIds :
            enroll_in_course(u, c, s)
    \/ \E c \in CourseIds, a \in BOOLEAN : update_course(c, a)
    \/ \E c \in CourseIds : delete_course(c)

CourseSpec == CourseInit /\ [][CourseNext]_vars

\* C8: enroll_in_course for a triple that has an active row fails and writes
\* nothing (with "Already enrolled" when the course is available and the
\* semester exists); when the triple has only inactive rows and the checks
\* pass it inserts a new active row and leaves the inactive ones as they
\* were; and no triple ever has more than one active row.
C8_NoReactivationPath ==
    /\ \A u \in EnrollingUsers, c \in CourseIds, s \in SemesterIds :
            Cardinality({e \in TripleRows(courseEnrollments, u, c, s) :
                            courseEnrollments[e].is_active}) <= 1
    /\ courseResponse.op = "enroll" =>
        LET passed == /\ courseResponse.course_state = "available"
                      /\ courseResponse.semester_exists
        IN  /\ courseResponse.had_active =>
                    /\ courseResponse.result # "created"
                    /\ ~courseResponse.changed
                    /\ passed => courseResponse.result = "already_enrolled"
            /\ (passed /\ ~courseResponse.had_active /\ courseResponse.had_inactive) =>
                    /\ courseResponse.result = "created"
                    /\ courseResponse.inserted
                    /\ courseEnrollments[courseResponse.id].is_active

\* A triple that started with an inactive row got a second, active row, and
\* the next enroll of the triple was refused.
C8_Witness ==
    /\ courseResponse.op = "enroll"
    /\ courseResponse.result = "already_enrolled"
    /\ courseResponse.had_inactive
    /\ Cardinality(TripleRows(courseEnrollments, courseResponse.student,
                              courseResponse.course, courseResponse.semester)) = 2

\* C9: enroll_in_course for a missing course, for a course with
\* is_available = false or for a semester id that does not exist fails, and
\* course_enrollments is the same before and after the call.
C9_FailedEnrollWritesNothing ==
    (/\ courseResponse.op = "enroll"
     /\ \/ courseResponse.course_state # "available"
        \/ ~courseResponse.semester_exists)
        => /\ courseResponse.result \in {"not_found", "unavailable", "semester_not_found"}
           /\ courseResponse.course_state = "missing"
                => courseResponse.result = "not_found"
           /\ courseResponse.course_state = "unavailable"
                => courseResponse.result = "unavailable"
           /\ ~courseResponse.changed

\* A course that had taken an enrollment was closed, and an enroll of another
\* triple of that course was refused.
C9_Witness ==
    /\ courseResponse.op = "enroll"
    /\ courseResponse.result = "unavailable"
    /\ ~courseResponse.had_active
    /\ \E e \in DOMAIN courseEnrollments :
            /\ courseEnrollments[e].is_active
            /\ courseEnrollments[e].course_id = courseResponse.course

-----------------------------------------------------------------------------
\* rate_limit_dependency(max_requests, window_seconds): one limiter and its
\* request_counts dict, called for requests of two clients while time passes.

max_requests == 3

window_seconds == 60

MaxCalls == 5

MaxClock == 121

ClientIps == {"10.0.0.1", "10.0.0.2"}

\* Time passes between requests by just under a window or by a whole window.
TickSeconds == {window_seconds - 1, window_seconds}

\* The ASGI connection scope of a request: the server fills in the
\* connection's fields; no middleware of the application adds a "time" key.
RequestScope(ip) == [type |-> "http", client |-> ip]

\* int(request.scope.get("time", 0))
ScopeTime(scope) == IF "time" \in DOMAIN scope THEN scope.time ELSE 0

\* request_counts.get(client_ip, [])
CountsOf(ip) == IF ip \in DOMAIN request_counts THEN request_counts[ip] ELSE <<>>

\* The "clean old entries" comprehension.
CleanOld(times, window_start) ==
    SelectSeq(times, LAMBDA req_time : req_time > window_start)

rate_limiter(ip) ==
    LET client_ip == RequestScope(ip).client
        current_time == ScopeTime(RequestScope(ip))
        window_start == current_time - window_seconds
        kept == CleanOld(CountsOf(client_ip), window_start)
    IN  /\ Len(admissions) < MaxCalls
        /\ IF Len(kept) >= max_requests
           THEN /\ request_counts' = (client_ip :> kept) @@ request_counts
                /\ admissions' = Append(admissions,
                        [client |-> client_ip, at |-> clock, allowed |-> FALSE])
           ELSE /\ request_counts' =
                        (client_ip :> Append(kept, current_time)) @@ request_counts
                /\ admissions' = Append(admissions,
                        [client |-> client_ip, at |-> clock, allowed |-> TRUE])
        /\ UNCHANGED <<clock, semVars, progVars, courseVars, authVars, flightVars>>

Tick(d) ==
    /\ clock + d <= MaxClock
    /\ clock' = clock + d
    /\ UNCHANGED <<request_counts, admissions, semVars, progVars, courseVars, authVars,
                   flightVars>>

RateInit ==
    /\ RateQuiet
    /\ SemQuiet /\ ProgQuiet /\ CourseQuiet /\ AuthQuiet

RateNext ==
    \/ \E ip \in ClientIps : rate_limiter(ip)
    \/ \E d \in TickSeconds : Tick(d)

RateSpec == RateInit /\ [][RateNext]_vars

\* The calls of one client, in order.
ClientCalls(ip) == SelectSeq(admissions, LAMBDA a : a.client = ip)

\* The first four calls of a client, made inside one window, are allowed,
\* allowed, allowed, denied.
FourCallsInWindow ==
    \A ip \in ClientIps :
        LET h == ClientCalls(ip)
        IN  (Len(h) >= 4 /\ h[4].at - h[1].at < window_seconds) =>
                /\ \A i \in 1..max_requests : h[i].allowed
                /\ ~h[4].allowed

\* C10: with max_requests = 3 and window_seconds = 60, four calls of one
\* client inside one window are allowed, allowed, allowed, denied, and a
\* call of that client made window_seconds or more after them is allowed.
C10_RateGateBoundary ==
    /\ FourCallsInWindow
    /\ \A ip \in ClientIps :
        LET h == ClientCalls(ip)
        IN  (/\ Len(h) >= 5
             /\ h[4].at - h[1].at < window_seconds
             /\ h[5].at - h[4].at >= window_seconds) => h[5].allowed

-----------------------------------------------------------------------------
\* app/core/security.py: the JWT functions, and their two consumers
\* get_current_user and AuthService.refresh_token, while time passes.
\* Time is counted in ticks of 1/TicksPerSecond second: datetime.utcnow() has
\* a finer resolution than the whole seconds a JWT carries.

TicksPerSecond == 2

ACCESS_TOKEN_EXPIRE_MINUTES == 30

REFRESH_TOKEN_EXPIRE_DAYS == 7

MaxTokens == 1

MaxNow == 4

SECRET_KEY == "your-secret-key-change-in-production"

None == [type |-> "None"]

\* The columns and properties of class User.
UserAttributes ==
    {"id", "email", "first_name", "last_name", "middle_name", "phone_number",
     "matric_number", "password_hash", "is_active", "is_verified", "role",
     "profile_picture", "bio", "created_at", "updated_at", "last_login",
     "full_name", "is_student", "is_lecturer", "is_admin", "is_it_admin",
     "current_program_enrollment", "department", "current_level"}

\* pwd_context.hash(password)
get_password_hash(password) == [bcrypt |-> password]

\* pwd_context.verify(plain_password, hashed_password)
verify_password(plain_password, hashed_password) ==
    hashed_password = [bcrypt |-> plain_password]

\* Rows of table users as the auth functions read them.
UserRow(email, matric_number, password, role, is_active, is_verified) ==
    [email |-> email, matric_number |-> matric_number,
     password_hash |-> get_password_hash(password),
     role |-> role, is_active |-> is_active, is_verified |-> is_verified,
     last_login |-> -1]

AuthUsers ==
    (1 :> UserRow("ada@fedpoffa.edu.ng", "FPO/1", "pw1", "student", TRUE, TRUE))
    @@ (2 :> UserRow("bem@fedpoffa.edu.ng", "FPO/2", "pw2", "lecturer", TRUE, FALSE))
    @@ (3 :> UserRow("chi@fedpoffa.edu.ng", "FPO/3", "pw3", "admin", FALSE, TRUE))
    @@ (4 :> UserRow("dan@fedpoffa.edu.ng", "FPO/4", "pw4", "it_admin", TRUE, TRUE))

\* The data dicts passed to the token functions; type = "none" stands for a
\* dict without a "type" key.  No row of users has id 9.
ClaimSets ==
    {[sub |-> 1, role |-> "student", type |-> "none"],
     [sub |-> 1, role |-> "student", type |-> "access"],
     [sub |-> 2, role |-> "lecturer", type |-> "refresh"],
     [sub |-> 9, role |-> "student", type |-> "none"]}

\* expires_delta: a timedelta in seconds, or NoDelta for None (the argument
\* left out).
NoDelta == -1

ExpiresDeltas == {NoDelta, 0, 1}

\* timegm(d.utctimetuple()): jose writes and compares dates in whole seconds.
IntDate(ticks) == ticks \div TicksPerSecond

\* The lifetime the caller asked for, in ticks.
RequestedLifetime(expires_delta, default_seconds) ==
    (IF expires_delta = NoDelta THEN default_seconds ELSE expires_delta)
        * TicksPerSecond

\* "if expires_delta:" takes the else branch for None and for timedelta(0).
Lifetime(expires_delta, default_seconds) ==
    (IF expires_delta \in {NoDelta, 0} THEN default_seconds ELSE expires_delta)
        * TicksPerSecond

\* to_encode with a "type" key of data left as it is.
ToEncodeTypeKept(data, expire, jti, type) ==
    [sub |-> data.sub, role |-> data.role, exp |-> expire, iat |-> now,
     jti |-> jti, type |-> IF data.type = "none" THEN type ELSE data.type]

\* to_encode = data.copy(); to_encode.update({exp, iat, jti, type})
ToEncode(data, expire, jti, type) ==
    [sub |-> data.sub, role |-> data.role, exp |-> expire, iat |-> now,
     jti |-> jti, type |-> type]

\* jwt.encode(claims, key): dates become whole seconds, the key signs.
Encode(claims, key) ==
    [claims |-> [claims EXCEPT !.exp = IntDate(@), !.iat = IntDate(@)],
     key |-> key]

\* jwt.decode(token, key) inside verify_token's try: a bad signature or an
\* exp earlier than the current whole second raises JWTError, which
\* verify_token turns into None.
Decode(token, key) ==
    IF token.key # key THEN None
    ELSE IF token.claims.exp < IntDate(now) THEN None
    ELSE token.claims

verify_token(token) == Decode(token, SECRET_KEY)

verify_access_token(token) ==
    LET payload == verify_token(token)
    IN  IF payload # None /\ payload.type = "access" THEN payload ELSE None

verify_refresh_token(token) ==
    LET payload == verify_token(token)
    IN  IF payload # None /\ payload.type = "refresh" THEN payload ELSE None

\* An issued token and how it was issued.
Issued(token, purpose, data, ttl) ==
    [token |-> token, purpose |-> purpose, data |-> data,
     issued_at |-> now, ttl |-> ttl]

AccessToken(data, expires_delta, jti) ==
    LET lifetime == Lifetime(expires_delta, ACCESS_TOKEN_EXPIRE_MINUTES * 60)
    IN  Issued(Encode(ToEncode(data, now + lifetime, jti, "access"),
                      SECRET_KEY),
               "access", data,
               RequestedLifetime(expires_delta, ACCESS_TOKEN_EXPIRE_MINUTES * 60))

RefreshToken(data, expires_delta, jti) ==
    LET lifetime == Lifetime(expires_delta, REFRESH_TOKEN_EXPIRE_DAYS * 24 * 3600)
    IN  Issued(Encode(ToEncode(data, now + lifetime, jti, "refresh"),
                      SECRET_KEY),
               "refresh", data,
               RequestedLifetime(expires_delta, REFRESH_TOKEN_EXPIRE_DAYS * 24 * 3600))

create_access_token(data, expires_delta) ==
    /\ Len(tokens) < MaxTokens
    /\ tokens' = Append(tokens, AccessToken(data, expires_delta, Len(tokens) + 1))
    /\ authResponse' = [op |-> "create_access_token", result |-> "ok",
                        id |-> Len(tokens) + 1]
    /\ UNCHANGED <<now, semVars, progVars, courseVars, rateVars, flightVars>>

create_refresh_token(data, expires_delta) ==
    /\ Len(tokens) < MaxTokens
    /\ tokens' = Append(tokens, RefreshToken(data, expires_delta, Len(tokens) + 1))
    /\ authResponse' = [op |-> "create_refresh_token", result |-> "ok",
                        id |-> Len(tokens) + 1]
    /\ UNCHANGED <<now, semVars, progVars, courseVars, rateVars, flightVars>>

\* The token a client presents: issued token i, or a copy of it signed with
\* another key.
Presented(i, forged) ==
    IF forged THEN [tokens[i].token EXCEPT !.key = "another-key"]
    ELSE tokens[i].token

VerifyResponse(op, purpose, i, forged, payload) ==
    [op |-> op, result |-> IF payload = None THEN "None" ELSE "payload",
     id |-> i, purpose |-> purpose, forged |-> forged, at |-> now,
     payload |-> payload]

VerifyAccessToken(i, forged) ==
    /\ i \in DOMAIN tokens
    /\ authResponse' = VerifyResponse("verify", "access", i, forged,
                                      verify_access_token(Presented(i, forged)))
    /\ UNCHANGED <<tokens, now, semVars, progVars, courseVars, rateVars, flightVars>>

VerifyRefreshToken(i, forged) ==
    /\ i \in DOMAIN tokens
    /\ authResponse' = VerifyResponse("verify", "refresh", i, forged,
                                      verify_refresh_token(Presented(i, forged)))
    /\ UNCHANGED <<tokens, now, semVars, progVars, courseVars, rateVars, flightVars>>

\* What get_current_user or refresh_token answered for presented token i.
ConsumerResponse(op, i, forged, result, status, detail, user) ==
    [op |-> op, result |-> result, status |-> status, detail |-> detail,
     id |-> i, forged |-> forged, at |-> now, user |-> user,
     presented |-> tokens[i].purpose,
     verified |-> verify_token(Presented(i, forged)) # None,
     issued |-> DOMAIN tokens' \ DOMAIN tokens,
     was_active |-> tokens[i].data.sub \in DOMAIN users
                        /\ users[tokens[i].data.sub].is_active]

\* get_current_user without the is_active check.
CurrentUserActiveUnchecked(token) ==
    LET payload == verify_access_token(token)
    IN  IF payload = None
        THEN [status |-> 401, detail |-> "Invalid authentication token", user |-> 0]
        ELSE IF payload.sub \notin DOMAIN users
        THEN [status |-> 401, detail |-> "User not found", user |-> 0]
        ELSE [status |-> 200, detail |-> "", user |-> payload.sub]

\* get_current_user: the user of the token, or the 401 it raises.
CurrentUser(token) ==
    LET payload == verify_access_token(token)
    IN  IF payload = None
        THEN [status |-> 401, detail |-> "Invalid authentication token", user |-> 0]
        ELSE IF payload.sub \notin DOMAIN users
        THEN [status |-> 401, detail |-> "User not found", user |-> 0]
        ELSE IF ~users[payload.sub].is_active
        THEN [status |-> 401, detail |-> "User account is inactive", user |-> 0]
        ELSE [status |-> 200, detail |-> "", user |-> payload.sub]

\* The dependency get_current_user, for a request that presents token i.
get_current_user(i, forged) ==
    /\ i \in DOMAIN tokens
    /\ UNCHANGED <<tokens, now, semVars, progVars, courseVars, rateVars, flightVars>>
    /\ LET current_user == CurrentUser(Presented(i, forged))
       IN  authResponse' =
            ConsumerResponse("get_current_user", i, forged,
                             IF current_user.status = 200 THEN "ok" ELSE "unauthorized",
                             current_user.status, current_user.detail,
                             current_user.user)

\* AuthService.refresh_token, for a request that presents token i.  Building
\* token_data reads user.department_id.
refresh_token(i, forged) ==
    /\ i \in DOMAIN tokens
    /\ LET payload == verify_refresh_token(Presented(i, forged))
           op == "refresh_token"
       IN  IF payload = None
           THEN /\ tokens' = tokens
                /\ authResponse' = ConsumerResponse(op, i, forged, "unauthorized",
                                        401, "Invalid refresh token", 0)
           ELSE IF payload.sub \notin DOMAIN users \/ ~users[payload.sub].is_active
           THEN /\ tokens' = tokens
                /\ authResponse' = ConsumerResponse(op, i, forged, "unauthorized",
                                        401, "User not found or inactive", 0)
           ELSE IF "department_id" \notin UserAttributes
           THEN /\ tokens' = tokens
                /\ authResponse' = ConsumerResponse(op, i, forged, "attribute_error",
                                        500, "AttributeError", 0)
           ELSE /\ Len(tokens) < MaxTokens
                /\ tokens' = Append(tokens,
                        AccessToken([sub |-> payload.sub,
                                     role |-> users[payload.sub].role,
                                     type |-> "none"], NoDelta, Len(tokens) + 1))
                /\ authResponse' = ConsumerResponse(op, i, forged, "ok", 200,
                                        "", payload.sub)
    /\ UNCHANGED <<now, semVars, progVars, courseVars, rateVars, flightVars>>

TokenTick ==
    /\ now < MaxNow
    /\ now' = now + 1
    /\ UNCHANGED <<tokens, authResponse, semVars, progVars, courseVars, rateVars, flightVars>>

\* The tables of the other services, empty, beside a users table.
AuthTablesQuiet ==
    /\ programs = <<>>
    /\ userPrograms = <<>>
    /\ nextEnrollmentId = 1
    /\ progResponse = NoResponse
    /\ recovery = [stage |-> 0, id |-> 0]
    /\ SemQuiet /\ CourseQuiet /\ RateQuiet

TokenInit ==
    /\ users = AuthUsers
    /\ AuthQuiet
    /\ AuthTablesQuiet

TokenNext ==
    \/ \E data \in ClaimSets, d \in ExpiresDeltas : create_access_token(data, d)
    \/ \E data \in ClaimSets, d \in ExpiresDeltas : create_refresh_token(data, d)
    \/ \E i \in 1..MaxTokens, forged \in BOOLEAN : VerifyAccessToken(i, forged)
    \/ \E i \in 1..MaxTokens, forged \in BOOLEAN : VerifyRefreshToken(i, forged)
    \/ \E i \in 1..MaxTokens, forged \in BOOLEAN : get_current_user(i, forged)
    \/ \E i \in 1..MaxTokens, forged \in BOOLEAN : refresh_token(i, forged)
    \/ TokenTick

TokenSpec == TokenInit /\ [][TokenNext]_vars

\* C11: a token made by create_refresh_token never verifies as an access
\* token and a token made by create_access_token never verifies as a refresh
\* token, whatever "type" the data carried and at every time; so
\* get_current_user answers 401 to a request that presents a refresh token,
\* and refresh_token answers 401 to one that presents an access token.
C11_TokenPurposeIsolation ==
    /\ \A i \in DOMAIN tokens :
        /\ tokens[i].purpose = "refresh"
                => verify_access_token(tokens[i].token) = None
        /\ tokens[i].purpose = "access"
                => verify_refresh_token(tokens[i].token) = None
    /\ (authResponse.op = "get_current_user" /\ authResponse.presented = "refresh")
            => (authResponse.result = "unauthorized" /\ authResponse.status = 401)
    /\ (authResponse.op = "refresh_token" /\ authResponse.presented = "access")
            => (authResponse.result = "unauthorized" /\ authResponse.status = 401)

\* A refresh token made from data that carries type = "access", for an
\* active user and not yet expired, was presented to get_current_user.
C11_Witness ==
    /\ authResponse.op = "get_current_user"
    /\ authResponse.presented = "refresh"
    /\ ~authResponse.forged
    /\ authResponse.was_active
    /\ tokens[authResponse.id].data.type = "access"
    /\ verify_token(tokens[authResponse.id].token) # None

\* The subject claims of a payload are those of the data the token was made
\* from.
SubjectClaimsKept(payload, data) ==
    /\ payload # None
    /\ payload.sub = data.sub
    /\ payload.role = data.role

\* Verified with the purpose it was issued for before issued-at + ttl, a
\* token gives back its subject claims.
RoundTripBeforeExpiry ==
    (/\ authResponse.op = "verify"
     /\ ~authResponse.forged
     /\ authResponse.purpose = tokens[authResponse.id].purpose
     /\ authResponse.at < tokens[authResponse.id].issued_at
                            + tokens[authResponse.id].ttl)
        => SubjectClaimsKept(authResponse.payload, tokens[authResponse.id].data)

\* Verified after issued-at + ttl, a token gives None.
NoneAfterExpiry ==
    (/\ authResponse.op = "verify"
     /\ ~authResponse.forged
     /\ authResponse.purpose = tokens[authResponse.id].purpose
     /\ authResponse.at > tokens[authResponse.id].issued_at
                            + tokens[authResponse.id].ttl)
        => authResponse.payload = None

\* C12: for every claim set, purpose and ttl, verifying a token with the
\* purpose it was issued for returns its subject claims at every time before
\* issued-at + ttl and None at every time after it.
C12_RoundTripAndExpiry ==
    RoundTripBeforeExpiry /\ NoneAfterExpiry

-----------------------------------------------------------------------------
\* AuthService.authenticate_user over table users, with the UserService
\* calls that change is_active.

\* The identifiers of the login requests: the email and the matric number of
\* user 1 (active) and of user 3 (inactive), and two that no user has.
Identifiers ==
    {"ada@fedpoffa.edu.ng", "FPO/1", "chi@fedpoffa.edu.ng", "FPO/3",
     "zed@fedpoffa.edu.ng", "FPO/9"}

\* "@" in identifier
ContainsAt(identifier) ==
    identifier \in {"ada@fedpoffa.edu.ng", "bem@fedpoffa.edu.ng",
                    "chi@fedpoffa.edu.ng", "dan@fedpoffa.edu.ng",
                    "zed@fedpoffa.edu.ng"}

Passwords == {"pw1", "pw3", "wrong"}

\* _get_user_by_identifier: the ids of the rows the query matches (email and
\* matric_number are unique, so at most one).
UsersByIdentifier(identifier) ==
    IF ContainsAt(identifier)
    THEN {u \in DOMAIN users : users[u].email = identifier}
    ELSE {u \in DOMAIN users : users[u].matric_number = identifier}

\* Which of the three checks of authenticate_user refuses the login, if any.
LoginCase(identifier, password) ==
    LET found == UsersByIdentifier(identifier)
    IN  IF found = {} THEN "no_principal"
        ELSE LET user == users[CHOOSE u \in found : TRUE]
             IN  IF ~user.is_active THEN "inactive"
                 ELSE IF ~verify_password(password, user.password_hash)
                 THEN "bad_password"
                 ELSE "passed"

\* The HTTPException detail of each refusal.
LoginFailureDetail(case) ==
    IF case = "inactive" THEN "Account is inactive" ELSE "Invalid credentials"

LoginResponse(identifier, password, result, status, detail, user) ==
    [op |-> "authenticate_user", result |-> result, status |-> status,
     detail |-> detail, id |-> user, identifier |-> identifier,
     case |-> LoginCase(identifier, password),
     issued |-> DOMAIN tokens' \ DOMAIN tokens,
     at |-> now,
     last_login |-> IF user \in DOMAIN users THEN users'[user].last_login ELSE -1]

\* authenticate_user.  last_login is committed before token_data is built,
\* and token_data reads user.department_id.
authenticate_user(identifier, password) ==
    LET case == LoginCase(identifier, password)
        found == UsersByIdentifier(identifier)
    IN  /\ IF case # "passed"
           THEN /\ users' = users
                /\ tokens' = tokens
                /\ authResponse' = LoginResponse(identifier, password, "unauthorized",
                                        401, LoginFailureDetail(case), 0)
           ELSE LET u == CHOOSE x \in found : TRUE
                    token_data == [sub |-> u, role |-> users[u].role, type |-> "none"]
                IN  /\ users' = [users EXCEPT ![u].last_login = now]
                    /\ IF "department_id" \notin UserAttributes
                       THEN /\ tokens' = tokens
                            /\ authResponse' = LoginResponse(identifier, password,
                                    "attribute_error", 500, "AttributeError", u)
                       ELSE /\ Len(tokens) + 2 <= MaxTokens
                            /\ tokens' = tokens \o
                                    <<AccessToken(token_data, NoDelta, Len(tokens) + 1),
                                      RefreshToken(token_data, NoDelta, Len(tokens) + 2)>>
                            /\ authResponse' = LoginResponse(identifier, password,
                                    "ok", 200, "", u)
        /\ UNCHANGED <<now, programs, userPrograms, nextEnrollmentId, progResponse,
                       recovery, semVars, courseVars, rateVars, flightVars>>

UserOpResponse(op, u, result) == [op |-> op, result |-> result, id |-> u]

\* A delete_user that removes the row.
DeleteUserHard(u) ==
    /\ IF u \notin DOMAIN users
       THEN /\ users' = users
            /\ authResponse' = UserOpResponse("delete_user", u, FALSE)
       ELSE /\ users' = [v \in DOMAIN users \ {u} |-> users[v]]
            /\ authResponse' = UserOpResponse("delete_user", u, TRUE)
    /\ UNCHANGED <<tokens, now, programs, userPrograms, nextEnrollmentId,
                   progResponse, recovery, semVars, courseVars, rateVars, flightVars>>

\* UserService.delete_user: a soft delete.
delete_user(u) ==
    /\ IF u \notin DOMAIN users
       THEN /\ users' = users
            /\ authResponse' = UserOpResponse("delete_user", u, FALSE)
       ELSE /\ users' = [users EXCEPT ![u].is_active = FALSE]
            /\ authResponse' = UserOpResponse("delete_user", u, TRUE)
    /\ UNCHANGED <<tokens, now, programs, userPrograms, nextEnrollmentId,
                   progResponse, recovery, semVars, courseVars, rateVars, flightVars>>

activate_user(u) ==
    /\ IF u \notin DOMAIN users \/ users[u].is_active
       THEN /\ users' = users
            /\ authResponse' = UserOpResponse("activate_user", u, FALSE)
       ELSE /\ users' = [users EXCEPT ![u].is_active = TRUE]
            /\ authResponse' = UserOpResponse("activate_user", u, TRUE)
    /\ UNCHANGED <<tokens, now, programs, userPrograms, nextEnrollmentId,
                   progResponse, recovery, semVars, courseVars, rateVars, flightVars>>

deactivate_user(u) ==
    /\ IF u \notin DOMAIN users \/ ~users[u].is_active
       THEN /\ users' = users
            /\ authResponse' = UserOpResponse("deactivate_user", u, FALSE)
       ELSE /\ users' = [users EXCEPT ![u].is_active = FALSE]
            /\ authResponse' = UserOpResponse("deactivate_user", u, TRUE)
    /\ UNCHANGED <<tokens, now, programs, userPrograms, nextEnrollmentId,
                   progResponse, recovery, semVars, courseVars, rateVars, flightVars>>

LoginInit ==
    /\ users = AuthUsers
    /\ AuthQuiet
    /\ AuthTablesQuiet

LoginNext ==
    \/ \E identifier \in Identifiers, password \in Passwords :
            authenticate_user(identifier, password)
    \/ \E u \in DOMAIN AuthUsers : delete_user(u)
    \/ \E u \in DOMAIN AuthUsers : activate_user(u)
    \/ \E u \in DOMAIN AuthUsers : deactivate_user(u)
    \/ TokenTick

LoginSpec == LoginInit /\ [][LoginNext]_vars

LoginRefused(response) ==
    /\ response.op = "authenticate_user"
    /\ response.case # "passed"

\* C13: authenticate_user answers its three refusals (no principal for the
\* identifier, inactive principal, password that does not verify) with the
\* same status and the same message: any two refused logins, one after the
\* other, differ in neither.
C13_LoginFailuresIndistinguishable ==
    [][(LoginRefused(authResponse) /\ LoginRefused(authResponse'))
            => /\ authResponse'.status = authResponse.status
               /\ authResponse'.detail = authResponse.detail]_vars

\* C14: authenticate_user succeeds exactly when the identifier resolves to a
\* principal that is active and whose password verifies; a success sets
\* that principal's last_login and issues one access and one refresh token
\* whose subject is its id, whether or not it is verified.
C14_LoginSucceedsIff ==
    authResponse.op = "authenticate_user" =>
        /\ authResponse.result = "ok" <=> authResponse.case = "passed"
        /\ authResponse.result = "ok" =>
            /\ authResponse.last_login = authResponse.at
            /\ \E a, r \in authResponse.issued :
                /\ authResponse.issued = {a, r}
                /\ tokens[a].purpose = "access"
                /\ tokens[r].purpose = "refresh"
                /\ tokens[a].token.claims.sub = authResponse.id
                /\ tokens[r].token.claims.sub = authResponse.id

-----------------------------------------------------------------------------
\* Protected requests: the dependency get_current_user, then the route's
\* role dependency, then the role check in the route's body.

Roles == {"student", "lecturer", "admin", "it_admin"}

\* [FedpoffaConstants.ROLE_ADMIN, FedpoffaConstants.ROLE_IT_ADMIN]
AdminRoles == {"admin", "it_admin"}

Route(name, dependency, required, body) ==
    [name |-> name, dependency |-> dependency, required |-> required, body |-> body]

\* The role-restricted and the merely authenticated routes of the routers,
\* one of each kind of protection.
Endpoints ==
    {Route("auth.get_current_user_info", "get_current_user", {}, "none"),
     Route("semesters.create_semester", "require_admin", {}, "none"),
     Route("users.get_users", "require_roles", {"admin", "it_admin"}, "none"),
     Route("users.get_user_enrollments", "require_roles",
           {"admin", "it_admin", "lecturer"}, "none"),
     Route("programs.create_program", "get_current_user", {}, "is_admin"),
     Route("courses.get_my_enrolled_courses", "get_current_user", {}, "student"),
     Route("courses.get_my_coordinated_courses", "get_current_user", {}, "lecturer")}

\* Routes guarded by the dependencies no router uses yet.
OtherGuards ==
    {Route("require_lecturer", "require_lecturer", {}, "none"),
     Route("require_student", "require_student", {}, "none"),
     Route("require_roles(lecturer)", "require_roles", {"lecturer"}, "none"),
     Route("require_roles()", "require_roles", {}, "none")}
    \cup {Route("require_role", "require_role", {r}, "none") : r \in Roles}

Routes == Endpoints \cup OtherGuards

\* role_checker and roles_checker without the admin override.
RoleDependencyAllowsNoOverride(route, role) ==
    CASE route.dependency = "get_current_user" -> TRUE
      [] route.dependency = "require_role" -> role \in route.required
      [] route.dependency = "require_roles" -> role \in route.required
      [] route.dependency = "require_admin" -> role \in AdminRoles
      [] route.dependency = "require_lecturer" -> role \in {"lecturer"} \cup AdminRoles
      [] route.dependency = "require_student" -> role \in {"student"} \cup AdminRoles

\* Whether the route's dependency lets a user of this role through: each
\* dependency raises 403 unless the role is the one (one of those) it asks
\* for or an admin role.
RoleDependencyAllows(route, role) ==
    CASE route.dependency = "get_current_user" -> TRUE
      [] route.dependency = "require_role" ->
            ~(role \notin route.required /\ role \notin AdminRoles)
      [] route.dependency = "require_roles" ->
            ~(role \notin route.required /\ role \notin AdminRoles)
      [] route.dependency = "require_admin" -> role \in AdminRoles
      [] route.dependency = "require_lecturer" -> role \in {"lecturer"} \cup AdminRoles
      [] route.dependency = "require_student" -> role \in {"student"} \cup AdminRoles

\* The role check in the body of the route: "if not current_user.is_admin",
\* 'if current_user.role != "student"', 'if current_user.role != "lecturer"'.
HandlerAllows(route, role) ==
    CASE route.body = "none" -> TRUE
      [] route.body = "is_admin" -> role \in AdminRoles
      [] route.body = "student" -> role = "student"
      [] route.body = "lecturer" -> role = "lecturer"

\* The answer to a request for a route by the holder of token i: where it
\* was stopped, and whether a role check ran.
RequestResponse(i, route, status, stage, role_checked, user) ==
    [op |-> "request", result |-> stage, status |-> status, id |-> i,
     route |-> route, role_checked |-> role_checked, user |-> user,
     at |-> now,
     subject |-> tokens[i].data.sub,
     presented |-> tokens[i].purpose,
     verified |-> verify_token(tokens[i].token) # None,
     was_active |-> tokens[i].data.sub \in DOMAIN users
                        /\ users[tokens[i].data.sub].is_active,
     after_activation |-> /\ authResponse.op = "activate_user"
                          /\ authResponse.id = tokens[i].data.sub
                          /\ authResponse.result = TRUE]

request(i, route) ==
    /\ i \in DOMAIN tokens
    /\ LET current_user == CurrentUser(tokens[i].token)
       IN  authResponse' =
            IF current_user.status # 200
            THEN RequestResponse(i, route, 401, "authentication", FALSE, 0)
            ELSE IF ~RoleDependencyAllows(route, users[current_user.user].role)
            THEN RequestResponse(i, route, 403, "role_dependency", TRUE,
                                 current_user.user)
            ELSE IF ~HandlerAllows(route, users[current_user.user].role)
            THEN RequestResponse(i, route, 403, "handler", TRUE, current_user.user)
            ELSE RequestResponse(i, route, 200, "handled",
                                 route.dependency # "get_current_user"
                                    \/ route.body # "none",
                                 current_user.user)
    /\ UNCHANGED <<tokens, now, semVars, progVars, courseVars, rateVars, flightVars>>

\* Every user active, as when the tokens in circulation were issued.
AllActive(rows) == [u \in DOMAIN rows |-> [rows[u] EXCEPT !.is_active = TRUE]]

TokenData(u) == [sub |-> u, role |-> AuthUsers[u].role, type |-> "none"]

\* One user holds a token pair made by create_token_pair, or an access token
\* that lives one second with a refresh token.
SessionInit ==
    /\ users = AllActive(AuthUsers)
    /\ now = 0
    /\ \E u \in DOMAIN AuthUsers, d \in {NoDelta, 1} :
            tokens = <<AccessToken(TokenData(u), d, 1),
                       RefreshToken(TokenData(u), NoDelta, 2)>>
    /\ authResponse = NoResponse
    /\ inflight = <<>>
    /\ AuthTablesQuiet

SessionNext ==
    \/ \E i \in 1..2, route \in Routes : request(i, route)
    \/ \E i \in 1..2, forged \in BOOLEAN : refresh_token(i, forged)
    \/ \E u \in DOMAIN AuthUsers : delete_user(u)
    \/ \E u \in DOMAIN AuthUsers : activate_user(u)
    \/ \E u \in DOMAIN AuthUsers : deactivate_user(u)
    \/ TokenTick

SessionSpec == SessionInit /\ [][SessionNext]_vars

\* C15: refresh_token issues one new access token, and no refresh token,
\* exactly when the presented token verifies with purpose refresh and its
\* subject exists and is active at the call; otherwise it answers 401.
C15_RefreshIssuesAccessIff ==
    authResponse.op = "refresh_token" =>
        LET accepted == /\ authResponse.verified
                        /\ authResponse.presented = "refresh"
                        /\ authResponse.was_active
        IN  /\ authResponse.result = "ok" <=> accepted
            /\ authResponse.result = "ok" =>
                    /\ Cardinality(authResponse.issued) = 1
                    /\ \A j \in authResponse.issued : tokens[j].purpose = "access"
            /\ ~accepted => /\ authResponse.status = 401
                            /\ authResponse.issued = {}

\* An authenticated request: the token verified as an access token and its
\* subject was an active user.
Authenticated(response) ==
    /\ response.op = "request"
    /\ response.verified
    /\ response.presented = "access"
    /\ response.was_active

\* C18: require_role(r) and require_roles(R) let an authenticated principal
\* through exactly when its role is r (is in R) or is admin or it_admin, and
\* answer 403 otherwise.
C18_RoleCheckWithAdminOverride ==
    (/\ Authenticated(authResponse)
     /\ authResponse.route.dependency \in {"require_role", "require_roles"})
        => LET role == users[authResponse.subject].role
               allowed == role \in authResponse.route.required \/ role \in AdminRoles
           IN  /\ allowed => authResponse.status = 200
               /\ ~allowed => /\ authResponse.status = 403
                              /\ authResponse.result = "role_dependency"

\* An it_admin passed a check that requires {lecturer}.
C18_Witness ==
    /\ Authenticated(authResponse)
    /\ authResponse.route.dependency = "require_roles"
    /\ authResponse.route.required = {"lecturer"}
    /\ users[authResponse.subject].role = "it_admin"
    /\ authResponse.status = 200

\* C19: no route of the routers answers 403 to an authenticated, active
\* principal whose role is admin or it_admin.
C19_AdminOverrideEverywhere ==
    (/\ Authenticated(authResponse)
     /\ authResponse.route \in Endpoints
     /\ users[authResponse.subject].role \in AdminRoles)
        => authResponse.status # 403

\* C20: a request whose access token belongs to a user with is_active =
\* false is answered 401 before any role check, however valid the token;
\* and a request with an unexpired access token of an active user is not
\* stopped at authentication, also right after activate_user.
C20_InactiveRejectedAtAuthentication ==
    authResponse.op = "request" =>
        /\ (authResponse.subject \in DOMAIN users /\ ~authResponse.was_active)
                => /\ authResponse.status = 401
                   /\ ~authResponse.role_checked
        /\ Authenticated(authResponse) => authResponse.status # 401

\* The user was deactivated and activated again, and the access token issued
\* before that was accepted by a role-restricted route.
C20_Witness ==
    /\ Authenticated(authResponse)
    /\ authResponse.after_activation
    /\ authResponse.status = 200
    /\ authResponse.role_checked

-----------------------------------------------------------------------------
\* validate_password_strength.  A password is the sequence of its characters.

MaxTailLen == 3

Lowercase ==
    {"a", "b", "c", "d", "e", "f", "g", "h", "i", "j", "k", "l", "m",
     "n", "o", "p", "q", "r", "s", "t", "u", "v", "w", "x", "y", "z"}

Uppercase ==
    {"A", "B", "C", "D", "E", "F", "G", "H", "I", "J", "K", "L", "M",
     "N", "O", "P", "Q", "R", "S", "T", "U", "V", "W", "X", "Y", "Z"}

Digits == {"0", "1", "2", "3", "4", "5", "6", "7", "8", "9"}

\* the character class [@$!%*?&]
SpecialCharacters == {"@", "$", "!", "%", "*", "?", "&"}

\* re.search(r"[...]", password)
Search(class, password) == \E i \in 1..Len(password) : password[i] \in class

\* validate_password_strength without its last check.
ValidatePasswordStrengthNoSpecial(password) ==
    IF Len(password) < 8 THEN FALSE
    ELSE IF ~Search(Lowercase, password) THEN FALSE
    ELSE IF ~Search(Uppercase, password) THEN FALSE
    ELSE IF ~Search(Digits, password) THEN FALSE
    ELSE TRUE

validate_password_strength(password) ==
    IF Len(password) < 8 THEN FALSE
    ELSE IF ~Search(Lowercase, password) THEN FALSE
    ELSE IF ~Search(Uppercase, password) THEN FALSE
    ELSE IF ~Search(Digits, password) THEN FALSE
    ELSE IF ~Search(SpecialCharacters, password) THEN FALSE
    ELSE TRUE

\* 'short1!', 'alllowercase1!', 'ValidPass123!', 'Str0ng!pw' and 'weakpass'
Short1 == <<"s", "h", "o", "r", "t", "1", "!">>

AllLowercase1 ==
    <<"a", "l", "l", "l", "o", "w", "e", "r", "c", "a", "s", "e", "1", "!">>

ValidPass123 ==
    <<"V", "a", "l", "i", "d", "P", "a", "s", "s", "1", "2", "3", "!">>

Str0ngPw == <<"S", "t", "r", "0", "n", "g", "!", "p", "w">>

WeakPass == <<"w", "e", "a", "k", "p", "a", "s", "s">>

-----------------------------------------------------------------------------
\* AuthService.register_user, UserService.update_user_profile and
\* UserService.update_user over table users, whose columns email and
\* matric_number are declared unique.

MaxUsers == 5

\* UserRegister requests: an email and a matric number that a user holds, new
\* ones, and ones that fail the format checks.
RegisterInputs ==
    [email : {"ada@fedpoffa.edu.ng", "eve@fedpoffa.edu.ng", "eve@gmail.com"},
     matric_number : {"FPO/1", "FPO/5", "F5"},
     password : {Str0ngPw, WeakPass},
     role : {"student"}]

\* _validate_matric_number: len(matric_number) >= 5
ValidMatricNumber(matric_number) == matric_number \notin {"F5", ""}

\* _validate_fedpoffa_email: email.endswith("@fedpoffa.edu.ng")
ValidFedpoffaEmail(email) == email \notin {"eve@gmail.com"}

\* _user_exists_by_email / _user_exists_by_matric_number
UserExistsByEmail(email) == \E u \in DOMAIN users : users[u].email = email

UserExistsByMatricNumber(matric_number) ==
    \E u \in DOMAIN users : users[u].matric_number = matric_number

\* A users table without its unique constraints.
UniqueConstraintsUnchecked(rows) == TRUE

\* unique=True on users.email and users.matric_number: what the database
\* checks when a commit writes rows.
UniqueConstraintsHold(rows) ==
    \A u, v \in DOMAIN rows :
        u # v => /\ rows[u].email # rows[v].email
                 /\ rows[u].matric_number # rows[v].matric_number

\* The checks of register_user, in source order.
RegisterCheck(user_data) ==
    IF ~ValidMatricNumber(user_data.matric_number) THEN "Invalid matric number format"
    ELSE IF ~ValidFedpoffaEmail(user_data.email) THEN "Email must be from FEDPOFFA domain"
    ELSE IF ~validate_password_strength(user_data.password) THEN "Password too weak"
    ELSE IF UserExistsByEmail(user_data.email)
    THEN "User with this email already exists"
    ELSE IF UserExistsByMatricNumber(user_data.matric_number)
    THEN "User with this matric number already exists"
    ELSE "passed"

\* The keyword arguments of User(...) in register_user that class User has
\* no attribute for; the declarative constructor raises TypeError for one.
InvalidUserKeywords ==
    {"first_name", "last_name", "middle_name", "email", "matric_number",
     "password_hash", "role", "department_id", "phone_number", "is_active",
     "is_verified"} \ UserAttributes

RegisterResponse(user_data, result, status, detail, id) ==
    [op |-> "register_user", result |-> result, status |-> status,
     detail |-> detail, id |-> id,
     valid |-> /\ ValidMatricNumber(user_data.matric_number)
               /\ ValidFedpoffaEmail(user_data.email)
               /\ validate_password_strength(user_data.password),
     email_taken |-> UserExistsByEmail(user_data.email),
     matric_taken |-> UserExistsByMatricNumber(user_data.matric_number),
     created |-> DOMAIN users' \ DOMAIN users]

register_user(user_data) ==
    LET check == RegisterCheck(user_data)
        id == Cardinality(DOMAIN users) + 1
        user == [UserRow(user_data.email, user_data.matric_number,
                         user_data.password, user_data.role, TRUE, FALSE)
                    EXCEPT !.last_login = -1]
    IN  /\ IF check # "passed"
           THEN /\ users' = users
                /\ authResponse' = RegisterResponse(user_data, "bad_request", 400,
                                                    check, 0)
           ELSE IF InvalidUserKeywords # {}
           THEN /\ users' = users
                /\ authResponse' = RegisterResponse(user_data, "type_error", 500,
                                                    "TypeError", 0)
           ELSE /\ id <= MaxUsers
                /\ users' = users @@ (id :> user)
                /\ authResponse' = RegisterResponse(user_data, "ok", 200,
                                                    "Registration successful", id)
        /\ UNCHANGED <<tokens, now, programs, userPrograms, nextEnrollmentId,
                       progResponse, recovery, semVars, courseVars, rateVars, flightVars>>

\* matric_number of a UserUpdate / UserProfileUpdate request; "None" leaves
\* the column alone.
MatricUpdates == {"None", "FPO/1", "FPO/2", "FPO/5"}

\* An update that also assigns the role.
UserUpdatedRoleToo(row, matric_number) ==
    IF matric_number = "None" THEN row
    ELSE [row EXCEPT !.matric_number = matric_number, !.role = "admin"]

\* The row after the assignments of update_user_profile / update_user.
UserUpdated(row, matric_number) ==
    IF matric_number = "None" THEN row
    ELSE [row EXCEPT !.matric_number = matric_number]

UpdateResponse(op, u, matric_number, result, status) ==
    [op |-> op, result |-> result, status |-> status, id |-> u,
     matric_number |-> matric_number,
     taken_by_other |-> \E v \in DOMAIN users :
                            v # u /\ users[v].matric_number = matric_number,
     changed |-> users' # users]

\* The lookup, the assignments and the commit that update_user_profile and
\* update_user share.
UpdateUserRow(op, u, matric_number, committed) ==
    IF u \notin DOMAIN users
    THEN /\ users' = users
         /\ authResponse' = UpdateResponse(op, u, matric_number, "not_found", 404)
    ELSE LET rows == [users EXCEPT ![u] = UserUpdated(@, matric_number)]
         IN  IF ~UniqueConstraintsHold(rows)
             THEN /\ users' = users
                  /\ authResponse' = UpdateResponse(op, u, matric_number,
                                                    "integrity_error", 500)
             ELSE /\ users' = rows
                  /\ authResponse' = UpdateResponse(op, u, matric_number,
                                                    committed, 200)

\* update_user_profile: after the commit it returns get_user_profile, which
\* reads user.department_id, user.level and user.enrolled_courses.
update_user_profile(u, matric_number) ==
    /\ UpdateUserRow("update_user_profile", u, matric_number,
                     IF {"department_id", "level", "enrolled_courses"}
                            \subseteq UserAttributes
                     THEN "ok" ELSE "attribute_error_after_commit")
    /\ UNCHANGED <<tokens, now, programs, userPrograms, nextEnrollmentId,
                   progResponse, recovery, semVars, courseVars, rateVars, flightVars>>

update_user(u, matric_number) ==
    /\ UpdateUserRow("update_user", u, matric_number, "ok")
    /\ UNCHANGED <<tokens, now, programs, userPrograms, nextEnrollmentId,
                   progResponse, recovery, semVars, courseVars, rateVars, flightVars>>

RegisterInit ==
    /\ users = AuthUsers
    /\ AuthQuiet
    /\ AuthTablesQuiet

RegisterNext ==
    \/ \E user_data \in RegisterInputs : register_user(user_data)
    \/ \E u \in 1..MaxUsers, m \in MatricUpdates : update_user_profile(u, m)
    \/ \E u \in 1..MaxUsers, m \in MatricUpdates : update_user(u, m)

RegisterSpec == RegisterInit /\ [][RegisterNext]_vars

\* C16: after any sequence of register_user, update_user_profile and
\* update_user, no two principals have the same email and no two have the
\* same matric number.
C16_EmailAndMatricUnique ==
    \A u, v \in DOMAIN users :
        u # v => /\ users[u].email # users[v].email
                 /\ users[u].matric_number # users[v].matric_number

\* An update asked for a matric number that another principal holds, and
\* changed nothing.
C16_Witness ==
    /\ authResponse.op \in {"update_user_profile", "update_user"}
    /\ authResponse.taken_by_other
    /\ authResponse.result = "integrity_error"
    /\ ~authResponse.changed

\* C17: register_user with an email or a matric number that a principal
\* holds fails with the "already exists" error and creates no principal;
\* with valid input and both values unused it succeeds and creates exactly
\* one principal, with is_active = true and is_verified = false.
C17_RegisterConflictOrCreate ==
    (authResponse.op = "register_user" /\ authResponse.valid) =>
        /\ (authResponse.email_taken \/ authResponse.matric_taken)
                => /\ authResponse.result = "bad_request"
                   /\ authResponse.created = {}
        /\ (~authResponse.email_taken /\ ~authResponse.matric_taken)
                => /\ authResponse.result = "ok"
                   /\ authResponse.created = {authResponse.id}
                   /\ users[authResponse.id].is_active
                   /\ ~users[authResponse.id].is_verified

-----------------------------------------------------------------------------
\* The password policy applied to bounded passwords, and the two writers of
\* users.password_hash: AuthService.register_user and
\* UserService.change_password.

PolicyAlphabet == {"a", "A", "1", "!", "#"}

Stems == {<<>>, <<"p", "a", "s", "s", "w">>, <<"P", "A", "S", "S", "W">>}

Tails == UNION {[1..n -> PolicyAlphabet] : n \in 0..MaxTailLen}

PolicyPasswords ==
    {stem \o tail : stem \in Stems, tail \in Tails}
        \cup {Short1, AllLowercase1, ValidPass123, Str0ngPw, WeakPass}

OldPassword == <<"O", "l", "d", "P", "a", "s", "s", "1", "!">>

\* The seeded users, each with the hash of OldPassword.
PasswordUsers ==
    [u \in DOMAIN AuthUsers |->
        [AuthUsers[u] EXCEPT !.password_hash = get_password_hash(OldPassword)]]

CurrentPasswords == {OldPassword, ValidPass123, WeakPass}

NewPasswords ==
    {ValidPass123, Str0ngPw, Short1, AllLowercase1,
     <<"p", "a", "s", "s", "w", "A", "1", "#">>}

ValidatePassword(password) ==
    /\ authResponse' = [op |-> "validate_password_strength",
                        password |-> password,
                        result |-> validate_password_strength(password)]
    /\ UNCHANGED <<tokens, now, semVars, progVars, courseVars, rateVars, flightVars>>

ChangePasswordResponse(op, u, password_data, result, status, detail) ==
    [op |-> op, result |-> result, status |-> status, detail |-> detail,
     id |-> u, new_password |-> password_data.new_password,
     current_verifies |-> u \in DOMAIN users
        /\ users[u].password_hash = [bcrypt |-> password_data.current_password],
     stored |-> u \in DOMAIN users
        /\ users'[u].password_hash # users[u].password_hash,
     hash |-> IF u \in DOMAIN users THEN users'[u].password_hash ELSE None,
     changed |-> users' # users]

\* UserService.change_password
change_password(u, password_data) ==
    LET op == "UserService.change_password"
    IN  /\ IF u \notin DOMAIN users
           THEN /\ users' = users
                /\ authResponse' = ChangePasswordResponse(op, u, password_data,
                        "not_found", 404, "User not found")
           ELSE IF ~verify_password(password_data.current_password,
                                    users[u].password_hash)
           THEN /\ users' = users
                /\ authResponse' = ChangePasswordResponse(op, u, password_data,
                        "bad_request", 400, "Current password is incorrect")
           ELSE IF ~validate_password_strength(password_data.new_password)
           THEN /\ users' = users
                /\ authResponse' = ChangePasswordResponse(op, u, password_data,
                        "bad_request", 400, "New password too weak")
           ELSE /\ users' = [users EXCEPT ![u].password_hash =
                                get_password_hash(password_data.new_password)]
                /\ authResponse' = ChangePasswordResponse(op, u, password_data,
                        "ok", 200, "Password changed successfully")
        /\ UNCHANGED <<tokens, now, programs, userPrograms, nextEnrollmentId,
                       progResponse, recovery, semVars, courseVars, rateVars, flightVars>>

PasswordChanges ==
    [current_password : CurrentPasswords, new_password : NewPasswords]

PolicyInit ==
    /\ users = PasswordUsers
    /\ AuthQuiet
    /\ AuthTablesQuiet

PolicyNext ==
    \/ \E password \in PolicyPasswords : ValidatePassword(password)
    \/ \E u \in {1, 9}, password_data \in PasswordChanges :
            change_password(u, password_data)
    \/ \E user_data \in RegisterInputs : register_user(user_data)

PolicySpec == PolicyInit /\ [][PolicyNext]_vars

\* The characters of a password.
Characters(password) == {password[i] : i \in 1..Len(password)}

\* The policy as stated: at least 8 characters, with a lowercase letter, an
\* uppercase letter, a digit and a symbol of @$!%*?&.
MeetsPolicy(password) ==
    /\ Len(password) >= 8
    /\ Characters(password) \cap Lowercase # {}
    /\ Characters(password) \cap Uppercase # {}
    /\ Characters(password) \cap Digits # {}
    /\ Characters(password) \cap {"@", "$", "!", "%", "*", "?", "&"} # {}

\* C21: validate_password_strength accepts a password iff it meets the
\* policy, so 'short1!' and 'alllowercase1!' are rejected and 'ValidPass123!'
\* is accepted; register_user and change_password never store the hash of a
\* password the policy rejects.
C21_PasswordPolicy ==
    /\ authResponse.op = "validate_password_strength" =>
        /\ authResponse.result = MeetsPolicy(authResponse.password)
        /\ authResponse.password \in {Short1, AllLowercase1}
                => ~authResponse.result
        /\ authResponse.password = ValidPass123 => authResponse.result
    /\ authResponse.op = "UserService.change_password" =>
        (authResponse.stored =>
            /\ MeetsPolicy(authResponse.new_password)
            /\ authResponse.hash = [bcrypt |-> authResponse.new_password])
    /\ authResponse.op = "register_user" =>
        \A u \in authResponse.created : MeetsPolicy(users[u].password_hash.bcrypt)
    /\ \A u \in DOMAIN users :
        \/ users[u].password_hash = PasswordUsers[u].password_hash
        \/ MeetsPolicy(users[u].password_hash.bcrypt)

\* A password with every class but no symbol of the set was rejected, and a
\* change to a password that meets the policy was stored.
C21_Witness ==
    /\ authResponse.op = "validate_password_strength"
    /\ authResponse.password = <<"p", "a", "s", "s", "w", "A", "1", "#">>
    /\ ~authResponse.result
    /\ users[1].password_hash = [bcrypt |-> ValidPass123]

-----------------------------------------------------------------------------
\* The operations on a principal's account: the /change-password and
\* /verify-email routes of the auth router, login, refresh, and the
\* UserService operations.

\* The methods class AuthService defines.
AuthServiceMethods ==
    {"register_user", "authenticate_user", "refresh_token", "verify_email",
     "_validate_matric_number", "_validate_fedpoffa_email",
     "_user_exists_by_email", "_user_exists_by_matric_number",
     "_get_user_by_identifier", "_send_verification_email"}

AccountPasswordChanges ==
    [current_password : {OldPassword, ValidPass123},
     new_password : {ValidPass123, Short1}]

ChangePasswordRouteResponse(i, forged, password_data, status, detail) ==
    LET current_user == CurrentUser(Presented(i, forged)).user
    IN  [op |-> "change_password", status |-> status, detail |-> detail,
         id |-> current_user,
         authenticated |-> current_user # 0,
         new_password |-> password_data.new_password,
         current_verifies |-> current_user # 0
            /\ users[current_user].password_hash
                    = [bcrypt |-> password_data.current_password],
         hash |-> IF current_user # 0 THEN users'[current_user].password_hash
                  ELSE None,
         changed |-> users' # users]

\* POST /change-password: get_current_user, then
\* auth_service.change_password(...), a method AuthService does not define;
\* the route turns the AttributeError into a 500.
change_password_route(i, forged, password_data) ==
    /\ i \in DOMAIN tokens
    /\ "change_password" \notin AuthServiceMethods
    /\ users' = users
    /\ LET current_user == CurrentUser(Presented(i, forged))
       IN  authResponse' =
            IF current_user.status # 200
            THEN ChangePasswordRouteResponse(i, forged, password_data,
                    current_user.status, current_user.detail)
            ELSE ChangePasswordRouteResponse(i, forged, password_data,
                    500, "Password change failed")
    /\ UNCHANGED <<tokens, now, programs, userPrograms, nextEnrollmentId,
                   progResponse, recovery, semVars, courseVars, rateVars, flightVars>>

VerificationTokens == {"token-mailed-to-bem", "unknown-token"}

\* AuthService.verify_email behind POST /verify-email: it reads and writes
\* nothing and answers that the email is verified.
verify_email(token) ==
    /\ users' = users
    /\ authResponse' =
        [op |-> "verify_email", result |-> "ok", status |-> 200,
         message |-> "Email verified successfully", verified |-> TRUE,
         token |-> token,
         unverified_before |-> {u \in DOMAIN users : ~users[u].is_verified},
         unverified_after |-> {u \in DOMAIN users' : ~users'[u].is_verified}]
    /\ UNCHANGED <<tokens, now, programs, userPrograms, nextEnrollmentId,
                   progResponse, recovery, semVars, courseVars, rateVars, flightVars>>

AccountUsers == {1, 2}

AccountInit ==
    /\ users = PasswordUsers
    /\ now = 0
    /\ tokens = <<AccessToken(TokenData(1), NoDelta, 1),
                  RefreshToken(TokenData(1), NoDelta, 2)>>
    /\ authResponse = NoResponse
    /\ inflight = <<>>
    /\ AuthTablesQuiet

AccountNext ==
    \/ \E i \in 1..2, forged \in BOOLEAN, password_data \in AccountPasswordChanges :
            change_password_route(i, forged, password_data)
    \/ \E u \in AccountUsers, password_data \in AccountPasswordChanges :
            change_password(u, password_data)
    \/ \E token \in VerificationTokens : verify_email(token)
    \/ \E identifier \in {"ada@fedpoffa.edu.ng", "FPO/9"},
          password \in {OldPassword, ValidPass123} :
            authenticate_user(identifier, password)
    \/ \E i \in 1..2 : refresh_token(i, FALSE)
    \/ \E user_data \in RegisterInputs : register_user(user_data)
    \/ \E u \in AccountUsers, m \in {"None", "FPO/5"} : update_user_profile(u, m)
    \/ \E u \in AccountUsers, m \in {"None", "FPO/5"} : update_user(u, m)
    \/ \E u \in AccountUsers : delete_user(u)
    \/ \E u \in AccountUsers : activate_user(u)
    \/ \E u \in AccountUsers : deactivate_user(u)

AccountSpec == AccountInit /\ [][AccountNext]_vars

\* C22: for an authenticated principal, change-password succeeds and stores
\* the new hash when the current password verifies and the new one meets the
\* policy; otherwise it fails with a 400-class error and the hash is
\* unchanged.
C22_ChangePasswordOutcome ==
    (authResponse.op = "change_password" /\ authResponse.authenticated) =>
        IF authResponse.current_verifies /\ MeetsPolicy(authResponse.new_password)
        THEN /\ authResponse.status = 200
             /\ authResponse.hash = [bcrypt |-> authResponse.new_password]
        ELSE /\ authResponse.status \in 400..499
             /\ ~authResponse.changed

\* C23: a successful verify_email moves an unverified principal to
\* verified, and is_verified becomes true by no other operation.
C23_VerifyEmailVerifies ==
    /\ (authResponse.op = "verify_email" /\ authResponse.verified
            /\ authResponse.unverified_before # {})
        => authResponse.unverified_after # authResponse.unverified_before
    /\ authResponse.op # "verify_email" =>
        \A u \in DOMAIN PasswordUsers :
            users[u].is_verified = PasswordUsers[u].is_verified

\* C26: no operation removes a row of users or changes its id; delete_user
\* only sets is_active to false, and activate_user restores an inactive
\* principal.
C26_NeverHardDeleted ==
    [][/\ DOMAIN users \subseteq DOMAIN users'
       /\ authResponse'.op = "delete_user" =>
            \/ users' = users
            \/ /\ authResponse'.result
               /\ users' = [users EXCEPT ![authResponse'.id].is_active = FALSE]
       /\ (authResponse'.op = "activate_user"
                /\ authResponse'.id \in DOMAIN users
                /\ ~users[authResponse'.id].is_active) =>
            /\ authResponse'.result
            /\ users' = [users EXCEPT ![authResponse'.id].is_active = TRUE]]_vars

\* Principal 1, active at the start, was restored by activate_user.
C26_Witness ==
    /\ authResponse.op = "activate_user"
    /\ authResponse.id = 1
    /\ authResponse.result
    /\ users[1].is_active

\* C27: every principal's role is one of the four roles and no operation
\* changes it.
C27_RoleFixed ==
    [][/\ \A u \in DOMAIN users : users'[u].role = users[u].role
       /\ \A u \in DOMAIN users' : users'[u].role \in Roles]_vars

\* update_user changed principal 2's matric number and left the role alone.
C27_Witness ==
    /\ authResponse.op = "update_user"
    /\ authResponse.result = "ok"
    /\ authResponse.changed
    /\ users[2].matric_number = "FPO/5"
    /\ users[2].role = "lecturer"

-----------------------------------------------------------------------------
\* The step of rate_limiter against the wall clock (C24), and rate_limiter
\* run by several threadpool workers at once (C25).

\* The entries the stated step keeps at time t: those not older than
\* t - window_seconds.
StatedKept(times, t) ==
    SelectSeq(times, LAMBDA req_time : ~(req_time < t - window_seconds))

\* The last call of the limiter, when this step was a call.
Called == Len(admissions') = Len(admissions) + 1

LastAdmission == admissions'[Len(admissions')]

\* C24: a call for a client at time clock keeps that client's entries not
\* older than clock - window_seconds, is denied when max_requests or more
\* remain and otherwise allowed with clock appended; a denied call records
\* nothing and no call changes another client's entries.
C24_RateGateStep ==
    [][Called =>
        LET ip == LastAdmission.client
            kept == StatedKept(CountsOf(ip), clock)
        IN  /\ LastAdmission.allowed = (Len(kept) < max_requests)
            /\ request_counts'[ip] =
                    IF LastAdmission.allowed THEN Append(kept, clock) ELSE kept
            /\ \A other \in DOMAIN request_counts \ {ip} :
                    request_counts'[other] = request_counts[other]]_vars

MaxInflight == 2

Slots == 1..MaxInflight

\* A sync dependency runs in the threadpool: the comprehension reads the
\* client's list.
rate_limiter_read(slot, ip) ==
    LET client_ip == RequestScope(ip).client
        current_time == ScopeTime(RequestScope(ip))
        window_start == current_time - window_seconds
    IN  /\ slot \notin DOMAIN inflight
        /\ Len(admissions) + Cardinality(DOMAIN inflight) < MaxCalls
        /\ inflight' = (slot :> [op |-> "rate_limiter", stage |-> "store",
                                 client_ip |-> client_ip,
                                 current_time |-> current_time,
                                 cleaned |-> CleanOld(CountsOf(client_ip),
                                                      window_start)])
                        @@ inflight
        /\ UNCHANGED <<rateVars, semVars, progVars, courseVars, authVars>>

\* request_counts[client_ip] = [...]
rate_limiter_store(slot) ==
    /\ slot \in DOMAIN inflight
    /\ inflight[slot].stage = "store"
    /\ request_counts' =
            (inflight[slot].client_ip :> inflight[slot].cleaned) @@ request_counts
    /\ inflight' = [inflight EXCEPT ![slot].stage = "check"]
    /\ UNCHANGED <<clock, admissions, semVars, progVars, courseVars, authVars>>

\* if len(request_counts[client_ip]) >= max_requests: raise 429
rate_limiter_check(slot) ==
    /\ slot \in DOMAIN inflight
    /\ inflight[slot].stage = "check"
    /\ IF Len(request_counts[inflight[slot].client_ip]) >= max_requests
       THEN /\ admissions' = Append(admissions,
                    [client |-> inflight[slot].client_ip, at |-> clock,
                     allowed |-> FALSE])
            /\ inflight' = [s \in DOMAIN inflight \ {slot} |-> inflight[s]]
       ELSE /\ admissions' = admissions
            /\ inflight' = [inflight EXCEPT ![slot].stage = "append"]
    /\ UNCHANGED <<request_counts, clock, semVars, progVars, courseVars, authVars>>

\* request_counts[client_ip].append(current_time)
rate_limiter_append(slot) ==
    /\ slot \in DOMAIN inflight
    /\ inflight[slot].stage = "append"
    /\ request_counts' =
            [request_counts EXCEPT ![inflight[slot].client_ip] =
                Append(@, inflight[slot].current_time)]
    /\ admissions' = Append(admissions,
            [client |-> inflight[slot].client_ip, at |-> clock, allowed |-> TRUE])
    /\ inflight' = [s \in DOMAIN inflight \ {slot} |-> inflight[s]]
    /\ UNCHANGED <<clock, semVars, progVars, courseVars, authVars>>

RateThreadsNext ==
    \/ \E slot \in Slots, ip \in ClientIps : rate_limiter_read(slot, ip)
    \/ \E slot \in Slots : rate_limiter_store(slot)
    \/ \E slot \in Slots : rate_limiter_check(slot)
    \/ \E slot \in Slots : rate_limiter_append(slot)

RateThreadsSpec == RateInit /\ [][RateThreadsNext]_vars

\* The admitted calls of a client.
Admitted(ip) == SelectSeq(admissions, LAMBDA a : a.client = ip /\ a.allowed)

\* C25: once every concurrent call has finished, a client's stored sequence
\* holds one entry for each admitted call (no time passes, so every
\* admitted call is inside the window) and no other entry.
C25_NoLostAdmission ==
    inflight = <<>> =>
        \A ip \in ClientIps : Len(CountsOf(ip)) = Len(Admitted(ip))

-----------------------------------------------------------------------------
\* Program enrollment: the statuses a row passes through (C28), and
\* enroll_student_in_program served for several requests at once, each with
\* its own Session (C29).

\* C28: every row's status is one of the four valid statuses, and a row
\* whose status is graduated keeps it whatever is called.
C28_StatusValidGraduatedTerminal ==
    [][/\ \A e \in DOMAIN userPrograms' :
            userPrograms'[e].status \in {"enrolled", "graduated", "dropped", "suspended"}
       /\ \A e \in DOMAIN userPrograms :
            userPrograms[e].status = "graduated"
                => userPrograms'[e].status = "graduated"]_vars

\* The request's reads: the checks and the query for a row of the pair.
enroll_student_in_program_query(slot, u, p) ==
    LET check == EnrollCheck(u, p)
        had == ActivePairRows(userPrograms, u, p) # {}
    IN  /\ slot \notin DOMAIN inflight
        /\ userPrograms' = userPrograms
        /\ IF check # "pass"
           THEN /\ inflight' = inflight
                /\ progResponse' = ProgResponse("enroll", check, 0, u, p, had)
           ELSE IF PairRows(userPrograms, u, p) = {}
           THEN /\ inflight' = (slot :> [op |-> "enroll", user_id |-> u,
                                         program_id |-> p, existing_enrollment |-> 0])
                                @@ inflight
                /\ progResponse' = progResponse
           ELSE \E e \in PairRows(userPrograms, u, p) :
                    IF userPrograms[e].is_active
                    THEN /\ inflight' = inflight
                         /\ progResponse' = ProgResponse("enroll", "conflict", 0, u, p, had)
                    ELSE /\ inflight' = (slot :> [op |-> "enroll", user_id |-> u,
                                                  program_id |-> p,
                                                  existing_enrollment |-> e])
                                         @@ inflight
                         /\ progResponse' = progResponse
        /\ UNCHANGED <<users, programs, nextEnrollmentId, recovery, semVars,
                       courseVars, rateVars, authVars>>

\* The request's write and commit: the reactivation of the row it found, or
\* the insert of a new row.  user_programs has no unique constraint on
\* (user_id, program_id), so the commit succeeds.
enroll_student_in_program_commit(slot) ==
    /\ slot \in DOMAIN inflight
    /\ inflight[slot].op = "enroll"
    /\ LET u == inflight[slot].user_id
           p == inflight[slot].program_id
           e == inflight[slot].existing_enrollment
           had == ActivePairRows(userPrograms, u, p) # {}
       IN  IF e # 0
           THEN /\ userPrograms' = [userPrograms EXCEPT ![e] = Reactivated(userPrograms[e])]
                /\ UNCHANGED nextEnrollmentId
                /\ progResponse' = ProgResponse("enroll", "reactivated", e, u, p, had)
           ELSE /\ nextEnrollmentId <= MaxEnrollments
                /\ userPrograms' = userPrograms @@ (nextEnrollmentId :> NewEnrollment(u, p))
                /\ nextEnrollmentId' = nextEnrollmentId + 1
                /\ progResponse' = ProgResponse("enroll", "created", nextEnrollmentId,
                                                u, p, had)
    /\ inflight' = [s \in DOMAIN inflight \ {slot} |-> inflight[s]]
    /\ UNCHANGED <<users, programs, recovery, semVars, courseVars, rateVars, authVars>>

\* A deactivation between requests.
DeactivateEnrollment(e) ==
    /\ inflight = <<>>
    /\ e \in DOMAIN userPrograms
    /\ update_enrollment_status(e, "dropped", [NoKwargs EXCEPT !.is_active = "False"])
    /\ inflight' = inflight

EnrollThreadsNext ==
    \/ \E slot \in Slots, u \in UserIds, p \in ProgramIds :
            enroll_student_in_program_query(slot, u, p)
    \/ \E slot \in Slots : enroll_student_in_program_commit(slot)
    \/ \E e \in 1..MaxEnrollments : DeactivateEnrollment(e)

EnrollThreadsSpec == ProgInit /\ [][EnrollThreadsNext]_vars

\* C29: once the concurrent enroll calls have finished, a (user, program)
\* pair has at most one row.
C29_ConcurrentEnrollOneRow ==
    inflight = <<>> =>
        \A u \in UserIds, p \in ProgramIds :
            Cardinality(PairRows(userPrograms, u, p)) <= 1

-----------------------------------------------------------------------------
\* DELETE /users/{user_id} and POST /users/{user_id}/deactivate, served for
\* several requests at once: the dependencies of a request run first, its
\* body later.

AdminOps == {"delete_user", "deactivate_user"}

AdminResponse(op, caller, user_id, status, detail) ==
    [op |-> op, status |-> status, detail |-> detail, id |-> caller,
     user_id |-> user_id, changed |-> users' # users]

\* The dependencies of both routes: get_current_user, then
\* require_roles(["admin", "it_admin"]).
admin_route_dependencies(slot, op, i, user_id) ==
    /\ slot \notin DOMAIN inflight
    /\ i \in DOMAIN tokens
    /\ users' = users
    /\ LET current_user == CurrentUser(Presented(i, FALSE))
       IN  IF current_user.status # 200
           THEN /\ inflight' = inflight
                /\ authResponse' = AdminResponse(op, 0, user_id,
                        current_user.status, current_user.detail)
           ELSE IF users[current_user.user].role \notin {"admin", "it_admin"}
           THEN /\ inflight' = inflight
                /\ authResponse' = AdminResponse(op, current_user.user, user_id,
                        403, "Access denied")
           ELSE /\ inflight' = (slot :> [op |-> op, current_user |-> current_user.user,
                                         user_id |-> user_id])
                                @@ inflight
                /\ authResponse' = authResponse
    /\ UNCHANGED <<tokens, now, programs, userPrograms, nextEnrollmentId,
                   progResponse, recovery, semVars, courseVars, rateVars>>

\* What UserService.delete_user / deactivate_user returns for the row.
AdminServiceSucceeds(op, user_id) ==
    /\ user_id \in DOMAIN users
    /\ op = "deactivate_user" => users[user_id].is_active

\* The bodies of the two routes: the check against the caller's own id,
\* then the service call.
AdminRouteStatus(op, current_user, user_id) ==
    IF user_id = current_user THEN 400
    ELSE IF ~AdminServiceSucceeds(op, user_id) THEN 404
    ELSE 200

admin_route_body(slot) ==
    /\ slot \in DOMAIN inflight
    /\ inflight[slot].op \in AdminOps
    /\ LET op == inflight[slot].op
           current_user == inflight[slot].current_user
           user_id == inflight[slot].user_id
           code == AdminRouteStatus(op, current_user, user_id)
       IN  /\ users' = IF code = 200
                       THEN [users EXCEPT ![user_id].is_active = FALSE]
                       ELSE users
           /\ authResponse' = AdminResponse(op, current_user, user_id, code,
                    IF code = 400 THEN "Cannot delete or deactivate your own account"
                    ELSE IF code = 404 THEN "User not found"
                    ELSE "")
    /\ inflight' = [s \in DOMAIN inflight \ {slot} |-> inflight[s]]
    /\ UNCHANGED <<tokens, now, programs, userPrograms, nextEnrollmentId,
                   progResponse, recovery, semVars, courseVars, rateVars>>

\* Every seeded user is active and holds an access token.
AdminInit ==
    /\ users = AllActive(AuthUsers)
    /\ now = 0
    /\ tokens = <<AccessToken(TokenData(1), NoDelta, 1),
                  AccessToken(TokenData(3), NoDelta, 2),
                  AccessToken(TokenData(4), NoDelta, 3)>>
    /\ authResponse = NoResponse
    /\ inflight = <<>>
    /\ AuthTablesQuiet

AdminNext ==
    \/ \E slot \in Slots, op \in AdminOps, i \in 1..3, user_id \in 1..MaxUsers :
            admin_route_dependencies(slot, op, i, user_id)
    \/ \E slot \in Slots : admin_route_body(slot)

AdminSpec == AdminInit /\ [][AdminNext]_vars

\* C30: a delete or deactivate request of an administrator for their own
\* account fails with 400 and changes nothing, and some principal of role
\* admin or it_admin is active in every state.
C30_ActiveAdministratorRemains ==
    /\ (authResponse.op \in AdminOps /\ authResponse.id # 0
            /\ users[authResponse.id].role \in {"admin", "it_admin"}
            /\ authResponse.id = authResponse.user_id)
        => authResponse.status = 400 /\ ~authResponse.changed
    /\ \E u \in DOMAIN users :
            users[u].role \in {"admin", "it_admin"} /\ users[u].is_active

====
